---- MODULE Spec2Model ----
(***************************************************************************)
(* Slideshow engine of ImmichView: the useSlideshow hook                   *)
(* (src/src/hooks/useSlideshow.ts) driven by the useImmich hook            *)
(* (src/src/hooks/useImmich.ts).  React state is the set of variables;     *)
(* every asynchronous function in flight is an entry of the bag `tasks`;   *)
(* one action is one run of the event loop (a handler or the continuation  *)
(* of an await), followed by the re-run of the effects whose dependencies  *)
(* changed (operator Commit).                                              *)
(*                                                                         *)
(* Spec, LiveSpec  the hooks, one asynchronous function in flight at a time *)
(* RaceSpec        the hooks, with asynchronous functions racing, and the  *)
(*                 record of the descriptors given up                      *)
(* RotationLiveSpec  the same, with every response and trigger arriving    *)
(* RetrySpec       one call of getAssetWithRetry, and the release of what  *)
(*                 it returned                                             *)
(* PageSpec        Home of src/src/app/page.tsx: startup and user resets   *)
(* PageRotationSpec  Home with its rotation, without user resets           *)
(* ProgressSpec    the progress effect of a playing slideshow              *)
(* PageProgressSpec  the progress effect of src/src/app/page.tsx           *)
(* InlineSpec      useSlideshow of src/src/hooks/useWeather.ts             *)
(* InlineLiveSpec  the same, one function in flight, responses arriving    *)
(* FrameSpec       the two image containers of the album-based Home        *)
(*                 (src/unnamed/part_001, part_002)                        *)
(* AlbumSpec       the album search of src/unnamed/part_002                *)
(***************************************************************************)
EXTENDS Bags, FiniteSets, Integers, Naturals, Sequences, TLC

\* ---------------------------------------------------------------- bounds
NumAssets == 3      \* descriptors the catalog can hold
MaxPage == 3        \* page size of the model (ASSET_FETCH_PAGE_SIZE scaled)
MaxRes == 2         \* playable resources that can be created in one run
MaxResets == 1      \* user resets in one run
MaxTasks == 1       \* asynchronous functions in flight at once
MaxRacing == 2      \* the same, in the runs that let them race (RaceSpec, PageSpec)
MaxRacingRes == 3   \* playable resources that can be created in such a run
MaxRetries == 3     \* largest retries argument of a getAssetWithRetry call
MaxElapsed == 15200 \* milliseconds the progress interval is followed for
MaxReleases == 2    \* release calls for one resource after which InlineSpec advances no more
MaxUrls == 12       \* blob URLs the album-based Home creates in one run (FrameSpec)
MaxAlbums == 3      \* albums the server can answer with (AlbumSpec)
MaxAlbumAssets == 2 \* matching assets of one album (AlbumSpec)

\* ------------------------------------------------------- program constants
DefaultRetries == 1
RETRY_DELAY == 5000
DURATION == 15000
TICK == 100

\* ------------------------------------------------------------- variables
VARIABLES
  playlist,      \* useState<ImmichAsset[]>
  currentMedia,  \* useState<MediaAsset | null>
  nextMedia,     \* useState<MediaAsset | null>
  isLoading, isFetching, isFading,
  error,         \* useState<string | null>
  cursor,        \* localStorage[LOCAL_STORAGE_DATE_KEY]; 0 is absent
  tasks,         \* bag of asynchronous functions in flight
  timerArmed,    \* the rotation setTimeout is pending
  videoPlaying,  \* the <video> of current is mounted and playing
  mounted,       \* the mount effects have run
  nextRes,       \* next fresh blob URL number
  releaseCalls,  \* resource number -> calls of revokeAssetUrls(media) for it
  promoted,      \* resource numbers that have been made current
  epoch,         \* user resets so far
  lastWrite,     \* who wrote the cursor last: "promo", "reset", "wrap" or "none"
  skipped,       \* descriptors given up after the retries, since the last wrap-around
                 \* or reset (kept by the runs with limits.log)
  call,          \* one call getAssetWithRetry(asset, k) on its own (RetrySpec)
  frame,         \* the two image containers of the album-based Home (FrameSpec)
  album,         \* findAndLoadAlbum of the album-based Home (AlbumSpec)
  progress,      \* useState progress and its interval (ProgressSpec)
  takenBefore,   \* useState<string | null> of page.tsx (PageSpec); 0 is null
  configError,   \* SERVER_URL or API_KEY missing
  catSize,       \* descriptors in the catalog
  kind,          \* descriptor -> "IMAGE" | "VIDEO"
  inclusive,     \* the catalog answers takenBefore with <= (else <)
  reliable,      \* no fetch and no resolve attempt ever fails
  limits         \* what the run may have: tasks in flight at once, res created in
                 \* all, and whether it keeps the record `skipped` (log)

reactVars == <<playlist, currentMedia, nextMedia, isLoading, isFetching, isFading, error>>
configVars == <<configError, catSize, kind, inclusive, reliable, limits>>
vars == <<playlist, currentMedia, nextMedia, isLoading, isFetching, isFading, error,
          cursor, tasks, timerArmed, videoPlaying, mounted, nextRes, releaseCalls,
          promoted, epoch, lastWrite, skipped, call, frame, album, progress, takenBefore,
          configError, catSize, kind, inclusive, reliable, limits>>

\* ------------------------------------------------------------ data model
Assets == 1..NumAssets
Kinds == {"IMAGE", "VIDEO"}
NoMedia == [asset |-> 0, res |-> 0]     \* null
NoAsset == 0

\* fileCreatedAt of a descriptor: the catalog is ordered newest first; the dates
\* are 1 (before every descriptor) .. NumAssets + 1 (the newest descriptor)
fileCreatedAt(a) == NumAssets + 2 - a

\* 0 is the absent cursor (null)
Dates == 0..(NumAssets + 1)
\* what the user picks in the calendar: nothing, a date before every
\* descriptor, the date of the second newest descriptor
PickDates == {0, 1, NumAssets}
\* what localStorage holds at startup: nothing, a date before every
\* descriptor, the date of the oldest descriptor
StartDates == {0, 1, 2}

RECURSIVE SeqOfRange(_, _)
SeqOfRange(lo, hi) == IF lo > hi THEN <<>> ELSE <<lo>> \o SeqOfRange(lo + 1, hi)

RECURSIVE SelectBefore(_, _)
SelectBefore(s, c) ==
  IF s = <<>> THEN <<>>
  ELSE IF c = 0 \/ fileCreatedAt(Head(s)) < c \/ (inclusive /\ fileCreatedAt(Head(s)) = c)
       THEN <<Head(s)>> \o SelectBefore(Tail(s), c)
       ELSE SelectBefore(Tail(s), c)

Take(s, n) == IF Len(s) <= n THEN s ELSE SubSeq(s, 1, n)

\* POST /search/metadata {size, sort: DESC, takenBefore}: data.assets.items
SearchMetadata(c) == Take(SelectBefore(SeqOfRange(1, catSize), c), MaxPage)

\* ------------------------------------------------------------------ tasks
\* an asynchronous function in flight: where it is (pc), its local variables
\* and what its closure holds (held: the playlist array of an advance of Home)
FetchTask(tb, ftb, pc, ep) ==
  [type |-> "fetch", pc |-> pc, tb |-> tb, ftb |-> ftb, asset |-> NoAsset, retries |-> 0,
   att |-> 0, waited |-> 0, wait |-> FALSE, rest |-> <<>>, held |-> <<>>,
   old |-> NoMedia, nxt |-> NoMedia, epoch |-> ep]

LoadTask(type, pc, asset, rest, old, nxt, ep) ==
  [type |-> type, pc |-> pc, tb |-> 0, ftb |-> 0, asset |-> asset, retries |-> DefaultRetries,
   att |-> 0, waited |-> 0, wait |-> FALSE, rest |-> rest, held |-> <<>>,
   old |-> old, nxt |-> nxt, epoch |-> ep]

Add(b, t) == b (+) SetToBag({t})
Remove(b, t) == b (-) SetToBag({t})

\* a call getAssetWithRetry(asset, k): attempts made, delay waited, blob URLs
\* created (numbered 1..urls), what it returned ("pending", "media" or "null")
\* with the url and previewUrl of the media (0: none), and the URLs passed to
\* URL.revokeObjectURL so far, in order
NoCall == [asset |-> NoAsset, k |-> 0, retries |-> 0, att |-> 0, waited |-> 0,
           wait |-> FALSE, urls |-> 0, url |-> 0, previewUrl |-> 0, revoked |-> <<>>,
           result |-> "none"]

\* the two image containers of the album-based Home (src/unnamed/part_001:35-45,
\* part_002:42-55): imageA and imageB are the url of their state (blob URLs
\* are numbered 1..urls, 0 is ''), timer the rotation setTimeout is pending,
\* loading the containers whose foreground Image has not fired onLoad yet,
\* timeouts the pending 1000 ms timers of the visibility switch (the url and
\* the container their closure holds), revoked the URLs passed to
\* URL.revokeObjectURL
NoFrame == [variant |-> "none", imageA |-> 0, imageB |-> 0, isAVisible |-> TRUE,
            nextImageLoaded |-> FALSE, isLoading |-> TRUE, error |-> FALSE,
            timer |-> FALSE, loading |-> {}, timeouts |-> {}, revoked |-> {}, urls |-> 0]

\* the album search of Home (src/unnamed/part_002:42-59, 154-261): pc is the
\* await findAndLoadAlbum is at ("list", "details", "first") or "done",
\* albumPlaylist and currentAssets the lengths of the two arrays, examined
\* the albums the running call has dealt with, in order, and how
NoAlbum == [pc |-> "none", albumPlaylist |-> 0, albumIndex |-> 0, initialAlbumIndex |-> 0,
            examined |-> <<>>, isLoading |-> TRUE, error |-> "none",
            currentAssets |-> 0, assetIndex |-> 0]


\* ------------------------------------------------------------------ Init
\* useState initial values (useSlideshow.ts:24-40); nothing is in flight
Unmounted ==
  /\ kind = [a \in Assets |-> IF a % 2 = 0 THEN "VIDEO" ELSE "IMAGE"]
  /\ playlist = <<>>
  /\ currentMedia = NoMedia
  /\ nextMedia = NoMedia
  /\ isLoading = TRUE
  /\ isFetching = FALSE
  /\ isFading = FALSE
  /\ error = IF configError THEN "config" ELSE "none"
  /\ tasks = EmptyBag
  /\ timerArmed = FALSE
  /\ videoPlaying = FALSE
  /\ mounted = FALSE
  /\ nextRes = 1
  /\ releaseCalls = [n \in 1..limits.res |-> 0]
  /\ promoted = {}
  /\ epoch = 0
  /\ lastWrite = "none"
  /\ skipped = {}

\* progress state: num / den is the value of progress, den the displayDuration
\* of the running interval, d the duration in ms the video element reports
\* (nan: it has no duration yet), ran: the effect has run for the current media
NoProgress == [num |-> 0, den |-> 0, running |-> FALSE, elapsed |-> 0, d |-> 0,
               nan |-> FALSE, ran |-> FALSE]

\* the page has just been opened: a deployment, a catalog, a stored cursor
Opened ==
  /\ configError \in BOOLEAN
  /\ catSize \in {0, NumAssets}
  /\ inclusive \in BOOLEAN
  /\ reliable \in BOOLEAN
  /\ cursor \in StartDates
  /\ call = NoCall /\ frame = NoFrame /\ album = NoAlbum
  /\ progress = NoProgress
  /\ takenBefore = 0
  /\ Unmounted

Init == limits = [tasks |-> MaxTasks, res |-> MaxRes, log |-> FALSE] /\ Opened

RaceInit == limits = [tasks |-> MaxRacing, res |-> MaxRacingRes, log |-> TRUE] /\ Opened

\* --------------------------------------------------------------- effects
\* the state a handler leaves behind before React commits it: the React state,
\* which setters were called with a new object (plSet, curSet, nxtSet), whether
\* the handler was called by the armed wake source (fired), localStorage (c)
\* with the reason of the handler's write (w), the epoch, and the descriptors
\* given up so far (sk)
U0 ==
  [pl |-> playlist, cur |-> currentMedia, nxt |-> nextMedia, ld |-> isLoading,
   ft |-> isFetching, fd |-> isFading, err |-> error,
   plSet |-> FALSE, curSet |-> FALSE, nxtSet |-> FALSE, fired |-> FALSE,
   c |-> cursor, w |-> "none", ep |-> epoch, sk |-> skipped]

\* the <video> element of Home: rendered for a VIDEO current when neither the
\* loading nor the error screen is shown (part_003:40-48)
VideoMounted(ld, err, cur) == ~ld /\ err = "none" /\ cur # NoMedia /\ kind[cur.asset] = "VIDEO"

\* save-date effect (useSlideshow.ts:188-192)
SaveDate_Never(u) == u.c

SaveDate(u) == IF u.curSet /\ u.cur # NoMedia THEN fileCreatedAt(u.cur.asset) ELSE u.c

\* rotation timer effect (useSlideshow.ts:195-203): re-armed when isLoading,
\* currentMedia or advanceToNextAsset (nextMedia, playlist, currentMedia) change
TimerEffect_AnyKind(u) ==
  IF u.ld # isLoading \/ u.curSet \/ u.nxtSet \/ u.plSet
  THEN ~u.ld /\ u.cur # NoMedia
  ELSE timerArmed /\ ~u.fired

TimerEffect(u) ==
  IF u.ld # isLoading \/ u.curSet \/ u.nxtSet \/ u.plSet
  THEN ~u.ld /\ u.cur # NoMedia /\ kind[u.cur.asset] = "IMAGE"
  ELSE timerArmed /\ ~u.fired

\* startSlideshow effect (useSlideshow.ts:149-184), ft: isFetching after the
\* fetch effect, toggled: isFetching went true and false again
StartEffect(u, ft, toggled) ==
  /\ u.ld # isLoading \/ u.ft # isFetching \/ toggled \/ u.plSet
  /\ Len(u.pl) > 0 /\ u.ld /\ ~ft

\* React commits the batch u of a handler that leaves the tasks tk in flight,
\* and re-runs the effects of useSlideshow whose dependencies changed, in the
\* order they are declared.
Commit(u, tk) ==
  LET \* fetch effect (useSlideshow.ts:110-146): performFetch starts when
      \* isFetching becomes true
      fetchStarts == u.ft /\ ~isFetching
      \* fetchAssets returns null at once on a configuration error
      cfgFail == fetchStarts /\ configError
      err2 == IF cfgFail THEN "connect" ELSE IF fetchStarts THEN "none" ELSE u.err
      ft2 == IF cfgFail THEN FALSE ELSE u.ft
      tk1 == IF fetchStarts
             THEN Add(tk, FetchTask(u.c, u.c, IF cfgFail THEN "delay" ELSE "req", u.ep))
             ELSE tk
      tk2 == IF StartEffect(u, ft2, cfgFail)
             THEN Add(tk1, LoadTask("start", "first", Head(u.pl), Tail(u.pl), NoMedia,
                                    NoMedia, u.ep))
             ELSE tk1
      \* force-play effect (useSlideshow.ts:207-217)
      playDeps == u.curSet \/ u.nxtSet \/ u.plSet
      sameElement == VideoMounted(isLoading, error, currentMedia)
                     /\ VideoMounted(u.ld, u.err, u.cur)
                     /\ currentMedia.asset = u.cur.asset
  IN  /\ playlist' = u.pl
      /\ currentMedia' = u.cur
      /\ nextMedia' = u.nxt
      /\ isLoading' = u.ld
      /\ isFetching' = ft2
      /\ isFading' = u.fd
      /\ error' = err2
      /\ tasks' = tk2
      /\ BagCardinality(tk2) <= limits.tasks
      /\ cursor' = SaveDate(u)
      /\ lastWrite' = IF u.curSet /\ u.cur # NoMedia THEN "promo"
                      ELSE IF u.w # "none" THEN u.w ELSE lastWrite
      /\ skipped' = u.sk
      /\ timerArmed' = TimerEffect(u)
      /\ videoPlaying' = IF ~VideoMounted(u.ld, err2, u.cur) THEN FALSE
                         ELSE IF playDeps /\ VideoMounted(u.ld, u.err, u.cur) THEN TRUE
                         ELSE sameElement /\ videoPlaying /\ ~u.fired

\* mount effect (useSlideshow.ts:101-107): initialError is set exactly when
\* configError is
OnMount_AlwaysFetches == [U0 EXCEPT !.ft = TRUE]

OnMount == IF configError THEN [U0 EXCEPT !.ld = FALSE] ELSE [U0 EXCEPT !.ft = TRUE]

Mount ==
  /\ ~mounted
  /\ mounted' = TRUE
  /\ Commit(OnMount, tasks)
  /\ UNCHANGED <<nextRes, releaseCalls, promoted, epoch, call, frame, album, progress, takenBefore, configVars>>

\* ------------------------------------------------------ catalog fetching
\* fetchAssets caught an error and returned null: performFetch reports it and
\* waits 5000 ms (useImmich.ts:77-80, useSlideshow.ts:119-122)
FetchFailed_RemovesCursor(t) ==
  Commit([U0 EXCEPT !.err = "connect", !.ft = FALSE, !.c = 0, !.w = "wrap"],
         Add(Remove(tasks, t), [t EXCEPT !.pc = "delay"]))

FetchFailed(t) ==
  Commit([U0 EXCEPT !.err = "connect", !.ft = FALSE],
         Add(Remove(tasks, t), [t EXCEPT !.pc = "delay"]))

\* fetchAssets got an empty page for a cursor: it removes the cursor and
\* fetches again from the start (useImmich.ts:69-74)
EndOfTimeline(t) ==
  Commit([U0 EXCEPT !.c = 0, !.w = "wrap", !.sk = {}],
         Add(Remove(tasks, t), [t EXCEPT !.ftb = 0]))

\* performFetch got an empty list and had read a cursor: it removes the cursor
\* and calls performFetch again (useSlideshow.ts:127-132)
FetchAgain(t) ==
  Commit([U0 EXCEPT !.err = "none", !.c = 0, !.w = "wrap", !.sk = {}],
         Add(Remove(tasks, t), [t EXCEPT !.tb = 0, !.ftb = 0]))

\* performFetch got an empty list without a cursor (useSlideshow.ts:133-137)
NoPhotos_KeepsLoading(t) ==
  Commit([U0 EXCEPT !.err = "nophotos", !.ft = FALSE], Remove(tasks, t))

NoPhotos(t) ==
  Commit([U0 EXCEPT !.err = "nophotos", !.ld = FALSE, !.ft = FALSE], Remove(tasks, t))

\* performFetch appends the page to the playlist (useSlideshow.ts:141-142)
Refilled(t, items) ==
  Commit([U0 EXCEPT !.pl = playlist \o items, !.plSet = TRUE, !.ft = FALSE], Remove(tasks, t))

\* the catalog answers the request of fetch task t, or the request fails
FetchResponse(t, ok) ==
  /\ t.type = "fetch" /\ t.pc = "req"
  /\ reliable => ok
  /\ LET items == SearchMetadata(t.ftb)
     IN  IF ~ok THEN FetchFailed(t)
         ELSE IF items = <<>> /\ t.ftb # 0 THEN EndOfTimeline(t)
         ELSE IF items = <<>> /\ t.tb # 0 THEN FetchAgain(t)
         ELSE IF items = <<>> THEN NoPhotos(t)
         ELSE Refilled(t, items)
  /\ UNCHANGED <<mounted, nextRes, releaseCalls, promoted, epoch, call, frame, album, progress, takenBefore, configVars>>

\* performFetch: the 5000 ms delay after a failed fetch is over (useSlideshow.ts:122-123)
FetchRetry(t) ==
  /\ t.type = "fetch" /\ t.pc = "delay"
  /\ Commit([U0 EXCEPT !.ft = TRUE], Remove(tasks, t))
  /\ UNCHANGED <<mounted, nextRes, releaseCalls, promoted, epoch, call, frame, album, progress, takenBefore, configVars>>

\* ------------------------------------------------------ resource release
\* revokeAssetUrls(media) (useImmich.ts:164-172) is called for m: the
\* revocation of its URLs is scheduled
Counted(m) == IF m = NoMedia THEN releaseCalls
              ELSE [releaseCalls EXCEPT ![m.res] = @ + 1]

Promoted(m) == promoted \cup {m.res}

\* ------------------------------------------------- preload, start, advance
\* the caller of preloadNextAsset resumes with the playlist it returned:
\* startSlideshow (useSlideshow.ts:176-178) or advanceToNextAsset (87-94)
Resume(t, u, pl) ==
  LET u1 == [u EXCEPT !.pl = pl, !.plSet = TRUE]
  IN  IF t.type = "start"
      THEN /\ Commit([u1 EXCEPT !.ld = FALSE], Remove(tasks, t))
           /\ UNCHANGED releaseCalls
      ELSE /\ Commit([u1 EXCEPT !.fd = FALSE], Remove(tasks, t))
           /\ releaseCalls' = Counted(t.old)

\* preloadNextAsset selects the head of pl for loading (useSlideshow.ts:48-56)
Selected(t, pl) ==
  [t EXCEPT !.pc = "pre", !.asset = Head(pl), !.rest = Tail(pl),
            !.retries = DefaultRetries, !.att = 0, !.waited = 0, !.wait = FALSE]

\* preloadNextAsset(pl) up to its first await (useSlideshow.ts:47-56), called
\* by task t after the updates u
Preload(t, u, pl) ==
  IF pl = <<>>
  THEN Resume(t, [u EXCEPT !.nxt = NoMedia, !.nxtSet = (u.nxt # NoMedia)], <<>>)
  ELSE /\ Commit(u, Add(Remove(tasks, t), Selected(t, pl)))
       /\ UNCHANGED releaseCalls

\* advanceToNextAsset without a next (useSlideshow.ts:68-74)
NotReady_AlwaysFetches == [U0 EXCEPT !.ft = TRUE, !.fired = TRUE]

NotReady == [U0 EXCEPT !.ft = (Len(playlist) = 0) \/ isFetching, !.fired = TRUE]

\* the advance that advanceToNextAsset starts: its closure holds playlist,
\* currentMedia (oldMedia) and nextMedia (useSlideshow.ts:76-80, 96)
Fade == LoadTask("adv", "fade", NoAsset, playlist, currentMedia, nextMedia, epoch)

\* advanceToNextAsset (useSlideshow.ts:67-80) called by the rotation timer
\* ("timer") or by the video element, onEnded or a rejected play() ("video")
Advance(src) ==
  /\ \/ src = "timer" /\ timerArmed
     \/ src = "video" /\ videoPlaying
  /\ IF nextMedia = NoMedia
     THEN Commit(NotReady, tasks)
     ELSE Commit([U0 EXCEPT !.fd = TRUE, !.fired = TRUE], Add(tasks, Fade))
  /\ UNCHANGED <<mounted, nextRes, releaseCalls, promoted, epoch, call, frame, album, progress, takenBefore, configVars>>

\* advanceToNextAsset after the 500 ms fade (useSlideshow.ts:82-86)
FadeDone_NoPromotion(t) ==
  /\ t.type = "adv" /\ t.pc = "fade"
  /\ UNCHANGED promoted
  /\ Preload(t, U0, t.rest)
  /\ UNCHANGED <<mounted, nextRes, epoch, call, frame, album, progress, takenBefore, configVars>>

FadeDone(t) ==
  /\ t.type = "adv" /\ t.pc = "fade"
  /\ promoted' = Promoted(t.nxt)
  /\ Preload(t, [U0 EXCEPT !.cur = t.nxt, !.curSet = TRUE], t.rest)
  /\ UNCHANGED <<mounted, nextRes, epoch, call, frame, album, progress, takenBefore, configVars>>

\* ------------------------------------------------------ getAssetWithRetry
\* one attempt of getAssetWithRetry (useImmich.ts:124-145): an IMAGE fetches the
\* preview and uses it for both handles, a VIDEO fetches original and preview
AttemptOk(k, origOk, prevOk) == IF k = "IMAGE" THEN prevOk ELSE origOk /\ prevOk

\* one attempt has been made
Attempted(t) == [t EXCEPT !.att = @ + 1]

\* a failed attempt with retries left (useImmich.ts:147-153)
Failed_GivesUp(t) == [Attempted(t) EXCEPT !.retries = 0, !.wait = TRUE]

Failed(t) == [Attempted(t) EXCEPT !.retries = @ - 1, !.wait = TRUE]

\* the RETRY_DELAY is over and getAssetWithRetry calls itself
Delayed(t) == [t EXCEPT !.wait = FALSE, !.waited = @ + RETRY_DELAY]

Loading(t) == t.type \in {"start", "adv"} /\ t.pc \in {"first", "pre"}

RetryDelayDone(t) ==
  /\ Loading(t) /\ t.wait
  /\ tasks' = Add(Remove(tasks, t), Delayed(t))
  /\ UNCHANGED <<reactVars, cursor, timerArmed, videoPlaying, mounted, nextRes, releaseCalls,
                 promoted, epoch, lastWrite, skipped, call, frame, album, progress, takenBefore, configVars>>

\* getAssetWithRetry has returned null for the asset of task t
GivenUp(t) == IF limits.log THEN skipped \cup {t.asset} ELSE skipped

\* startSlideshow could not load the first asset (useSlideshow.ts:163-169)
FirstFailed(t) ==
  [U0 EXCEPT !.err = "first", !.ld = FALSE, !.ft = (t.rest = <<>>) \/ isFetching,
             !.sk = GivenUp(t)]

\* the playlist preloadNextAsset goes on with after the asset of t could not
\* be loaded (useSlideshow.ts:60-63)
SkipTo_Requeue(t) == Append(t.rest, t.asset)

SkipTo(t) == t.rest

\* the fetches of one attempt of task t have answered
ResolveAttempt(t, origOk, prevOk) ==
  /\ Loading(t) /\ ~t.wait
  /\ kind[t.asset] = "IMAGE" => origOk = prevOk
  /\ LET ok == AttemptOk(kind[t.asset], origOk, prevOk)
         media == [asset |-> t.asset, res |-> nextRes]
     IN  /\ reliable => ok
         /\ ok => nextRes <= limits.res
         /\ nextRes' = IF ok THEN nextRes + 1 ELSE nextRes
         /\ IF ok /\ t.pc = "first"
            THEN \* startSlideshow (useSlideshow.ts:172-175)
                 /\ promoted' = Promoted(media)
                 /\ Preload(t, [U0 EXCEPT !.cur = media, !.curSet = TRUE], t.rest)
            ELSE IF ok
            THEN \* preloadNextAsset (useSlideshow.ts:58-59, 64)
                 /\ Resume(t, [U0 EXCEPT !.nxt = media, !.nxtSet = TRUE], t.rest)
                 /\ UNCHANGED promoted
            ELSE IF t.retries > 0
            THEN /\ Commit(U0, Add(Remove(tasks, t), Failed(t)))
                 /\ UNCHANGED <<promoted, releaseCalls>>
            ELSE IF t.pc = "first"
            THEN \* startSlideshow (useSlideshow.ts:163-169)
                 /\ Commit(FirstFailed(t), Remove(tasks, t))
                 /\ UNCHANGED <<promoted, releaseCalls>>
            ELSE \* preloadNextAsset tries the next one (useSlideshow.ts:60-63)
                 /\ Preload(t, [U0 EXCEPT !.sk = GivenUp(t)], SkipTo(t))
                 /\ UNCHANGED promoted
  /\ UNCHANGED <<mounted, epoch, call, frame, album, progress, takenBefore, configVars>>

\* ---------------------------------------------------------------- reset

\* handleTimelineChange (useSlideshow.ts:246-261), offered by the settings
\* popover, which Home renders only past the loading and error screens
handleTimelineChange(date) ==
  /\ mounted /\ ~isLoading /\ error = "none"
  /\ epoch < MaxResets
  /\ epoch' = epoch + 1
  /\ Commit([U0 EXCEPT !.c = date, !.w = "reset", !.ep = epoch + 1, !.sk = {},
                       !.pl = <<>>, !.plSet = TRUE,
                       !.cur = NoMedia, !.curSet = (currentMedia # NoMedia),
                       !.nxt = NoMedia, !.nxtSet = (nextMedia # NoMedia),
                       !.ld = TRUE, !.ft = TRUE], tasks)
  /\ UNCHANGED <<mounted, nextRes, releaseCalls, promoted, call, frame, album, progress, takenBefore, configVars>>

\* ------------------------------------------------------------------ Next
Next ==
  \/ Mount
  \/ \E t \in BagToSet(tasks) : \E ok \in BOOLEAN : FetchResponse(t, ok)
  \/ \E t \in BagToSet(tasks) : FetchRetry(t)
  \/ \E src \in {"timer", "video"} : Advance(src)
  \/ \E t \in BagToSet(tasks) : FadeDone(t)
  \/ \E t \in BagToSet(tasks) : \E o, p \in BOOLEAN : ResolveAttempt(t, o, p)
  \/ \E t \in BagToSet(tasks) : RetryDelayDone(t)
  \/ \E date \in PickDates : handleTimelineChange(date)

Spec == Init /\ [][Next]_vars

\* every request is answered or times out and every setTimeout fires; nothing
\* obliges the user to act or the rotation to go on
Fairness ==
  /\ WF_vars(Mount)
  /\ WF_vars(\E t \in BagToSet(tasks) : \E ok \in BOOLEAN : FetchResponse(t, ok))
  /\ WF_vars(\E t \in BagToSet(tasks) : FetchRetry(t))
  /\ WF_vars(\E t \in BagToSet(tasks) : FadeDone(t))
  /\ WF_vars(\E t \in BagToSet(tasks) : \E o, p \in BOOLEAN : ResolveAttempt(t, o, p))
  /\ WF_vars(\E t \in BagToSet(tasks) : RetryDelayDone(t))

LiveSpec == Init /\ [][Next]_vars /\ Fairness

RaceSpec == RaceInit /\ [][Next]_vars

TypeOK ==
  /\ playlist \in Seq(Assets)
  /\ isLoading \in BOOLEAN /\ isFetching \in BOOLEAN /\ isFading \in BOOLEAN
  /\ cursor \in Dates
  /\ nextRes \in 1..(limits.res + 1)
  /\ kind \in [Assets -> Kinds]
  /\ BagCardinality(tasks) <= limits.tasks


\* ------------------------------------ getAssetWithRetry(asset, k) on its own
\* blob URLs one attempt creates (useImmich.ts:112, 127-135)
Created(k, origOk, prevOk) ==
  IF k = "IMAGE" THEN (IF prevOk THEN 1 ELSE 0)
  ELSE (IF origOk THEN 1 ELSE 0) + (IF prevOk THEN 1 ELSE 0)

NewCall(a, k) == [asset |-> a, k |-> k, retries |-> k, att |-> 0, waited |-> 0,
                  wait |-> FALSE, urls |-> 0, url |-> 0, previewUrl |-> 0, revoked |-> <<>>,
                  result |-> "pending"]

RetryInit ==
  /\ configError = FALSE /\ catSize = NumAssets /\ inclusive = TRUE /\ reliable = FALSE
  /\ limits = [tasks |-> MaxTasks, res |-> MaxRes, log |-> FALSE]
  /\ cursor = 0
  /\ call \in {NewCall(a, k) : a \in Assets, k \in 0..MaxRetries}
  /\ frame = NoFrame /\ album = NoAlbum
  /\ progress = NoProgress
  /\ takenBefore = 0
  /\ Unmounted

slideVars == <<reactVars, cursor, tasks, timerArmed, videoPlaying, mounted, nextRes,
               releaseCalls, promoted, epoch, lastWrite, skipped, takenBefore, configVars>>

mainVars == <<slideVars, frame, album>>

\* the fetches of one attempt of the call have answered (useImmich.ts:124-161);
\* neither getAssetUrl nor getAssetWithRetry calls URL.revokeObjectURL
CallAttempt(origOk, prevOk) ==
  /\ call.result = "pending" /\ ~call.wait
  /\ kind[call.asset] = "IMAGE" => origOk = prevOk
  /\ LET made == Created(kind[call.asset], origOk, prevOk)
         c1 == [call EXCEPT !.urls = @ + made]
     IN  call' = IF AttemptOk(kind[call.asset], origOk, prevOk)
                 THEN \* an IMAGE uses its one URL for both handles (126-128)
                      [Attempted(c1) EXCEPT !.result = "media", !.url = call.urls + 1,
                                            !.previewUrl = call.urls + made]
                 ELSE IF call.retries > 0 THEN Failed(c1)
                 ELSE [Attempted(c1) EXCEPT !.result = "null"]
  /\ UNCHANGED <<mainVars, progress>>

\* the RETRY_DELAY of the call is over (useImmich.ts:152-153)
CallDelay ==
  /\ call.result = "pending" /\ call.wait
  /\ call' = Delayed(call)
  /\ UNCHANGED <<mainVars, progress>>

\* revokeAssetUrls(media) is called once for the media the call returned, and
\* its timer fires: media.url and media.previewUrl are revoked
\* (useImmich.ts:164-172)
CallRelease ==
  /\ call.result = "media" /\ call.revoked = <<>>
  /\ call' = [call EXCEPT !.revoked = <<call.url, call.previewUrl>>]
  /\ UNCHANGED <<mainVars, progress>>

RetryNext ==
  \/ \E o, p \in BOOLEAN : CallAttempt(o, p)
  \/ CallDelay
  \/ CallRelease

RetrySpec == RetryInit /\ [][RetryNext]_vars

\* ------------------------ Home of src/app/page.tsx, until the rotation begins
PLAYLIST_FETCH_THRESHOLD == 5

PageInit == RaceInit

\* the updates a handler of page.tsx has batched
P0 ==
  [pl |-> playlist, cur |-> currentMedia, nxt |-> nextMedia, ld |-> isLoading,
   ft |-> isFetching, fd |-> isFading, err |-> error, tb |-> takenBefore, c |-> cursor,
   w |-> "none", plSet |-> FALSE, curSet |-> FALSE, fired |-> FALSE, rel |-> releaseCalls,
   ep |-> epoch, sk |-> skipped]

\* React commits the batch u and re-runs the effects of Home whose dependencies
\* changed, in the order they are declared
PageCommit(u, tk) ==
  LET \* fetch effect (page.tsx:253-323): isFetching or takenBefore changed
      fetchStarts == u.ft /\ (~isFetching \/ u.tb # takenBefore)
      \* startSlideshow effect (page.tsx:326-352): isLoading or playlist changed
      starts == (u.plSet \/ u.ld # isLoading) /\ Len(u.pl) > 0 /\ u.ld
      \* low-water effect (page.tsx:367-372): sets isFetching, and the fetch
      \* effect runs in the render that follows
      low == /\ Len(u.pl) # Len(playlist) \/ u.ft # isFetching
             /\ ~u.ft /\ Len(u.pl) > 0 /\ Len(u.pl) < PLAYLIST_FETCH_THRESHOLD
      \* fetchAssets stops at once on a configuration error (page.tsx:255-260)
      cfgFail == configError /\ (fetchStarts \/ low)
      tk1 == IF (fetchStarts \/ low) /\ ~cfgFail
             THEN Add(tk, FetchTask(u.tb, u.tb, "req", u.ep))
             ELSE tk
      tk2 == IF starts
             THEN Add(tk1, LoadTask("start", "first", Head(u.pl), Tail(u.pl), NoMedia,
                                    NoMedia, u.ep))
             ELSE tk1
      ld2 == IF cfgFail THEN FALSE ELSE u.ld
      err2 == IF cfgFail THEN "config" ELSE IF fetchStarts \/ low THEN "none" ELSE u.err
      \* advanceToNextAsset is made anew when nextMedia, playlist, the url of
      \* currentMedia or isFetching change (page.tsx:229)
      timerDeps == \/ ld2 # isLoading \/ u.ld # isLoading
                   \/ u.curSet \/ u.cur # currentMedia \/ u.nxt # nextMedia \/ u.plSet
                   \/ u.ft # isFetching \/ low
      sameElement == VideoMounted(isLoading, error, currentMedia)
                     /\ VideoMounted(ld2, err2, u.cur) /\ currentMedia = u.cur
  IN  /\ playlist' = u.pl
      /\ currentMedia' = u.cur
      /\ nextMedia' = u.nxt
      /\ isLoading' = ld2
      /\ isFetching' = IF cfgFail THEN FALSE ELSE u.ft \/ low
      /\ isFading' = u.fd
      /\ error' = err2
      /\ takenBefore' = u.tb
      /\ tasks' = tk2
      /\ BagCardinality(tk2) <= limits.tasks
      \* save-date effect (page.tsx:245-250)
      /\ cursor' = SaveDate(u)
      /\ lastWrite' = IF u.curSet /\ u.cur # NoMedia THEN "promo"
                      ELSE IF u.w # "none" THEN u.w ELSE lastWrite
      \* rotation timer effect (page.tsx:355-365)
      /\ timerArmed' = IF timerDeps
                       THEN ~ld2 /\ u.cur # NoMedia /\ kind[u.cur.asset] = "IMAGE"
                       ELSE timerArmed /\ ~u.fired
      \* the <video autoPlay> of current (page.tsx:567-577)
      /\ videoPlaying' = IF ~VideoMounted(ld2, err2, u.cur) THEN FALSE
                         ELSE IF sameElement THEN videoPlaying /\ ~u.fired
                         ELSE TRUE
      /\ releaseCalls' = u.rel
      /\ epoch' = u.ep
      /\ skipped' = u.sk
      /\ UNCHANGED <<promoted, call, frame, album, progress, configVars>>

\* mount effect (page.tsx:235-241)
PageMount ==
  /\ ~mounted
  /\ mounted' = TRUE
  /\ PageCommit([P0 EXCEPT !.tb = cursor, !.ft = TRUE], tasks)
  /\ UNCHANGED nextRes

\* fetchAssets of the fetch effect gets its answer (page.tsx:288-316)
PageFetchResponse(t, ok) ==
  /\ t.type = "fetch" /\ t.pc = "req"
  /\ reliable => ok
  /\ LET items == SearchMetadata(t.tb)
     IN  IF ~ok
         THEN \* catch (page.tsx:312-314)
              PageCommit([P0 EXCEPT !.err = "connect"],
                         Add(Remove(tasks, t), [t EXCEPT !.pc = "delay"]))
         ELSE IF items = <<>> /\ t.tb # 0
         THEN \* reached the end (page.tsx:295-301), then finally (315-317)
              PageCommit([P0 EXCEPT !.tb = 0, !.c = 0, !.w = "wrap", !.ft = FALSE, !.sk = {}],
                         Remove(tasks, t))
         ELSE IF items = <<>>
         THEN \* no assets at all (page.tsx:302-306), then finally
              PageCommit([P0 EXCEPT !.err = "nophotos", !.ld = FALSE, !.ft = FALSE],
                         Remove(tasks, t))
         ELSE \* page.tsx:310, then finally
              PageCommit([P0 EXCEPT !.pl = playlist \o items, !.plSet = TRUE, !.ft = FALSE],
                         Remove(tasks, t))
  /\ UNCHANGED <<mounted, nextRes>>

\* the RETRY_DELAY after a failed fetch is over: finally (page.tsx:314-317)
PageFetchFinally(t) ==
  /\ t.type = "fetch" /\ t.pc = "delay"
  /\ PageCommit([P0 EXCEPT !.ft = FALSE], Remove(tasks, t))
  /\ UNCHANGED <<mounted, nextRes>>

\* the caller of preloadNextAsset resumes with the playlist it returned:
\* startSlideshow (page.tsx:345-348), or advanceToNextAsset, which then revokes
\* the URL of the media it replaced (219-227)
PageResume(t, u, pl) ==
  LET u1 == [u EXCEPT !.pl = pl, !.plSet = TRUE]
  IN  IF t.type = "adv"
      THEN PageCommit([u1 EXCEPT !.fd = FALSE, !.rel = Counted(t.old)], Remove(tasks, t))
      ELSE PageCommit([u1 EXCEPT !.ld = FALSE], Remove(tasks, t))

\* preloadNextAsset(pl) up to its first await (page.tsx:179-187)
PagePreload(t, u, pl) ==
  IF pl = <<>>
  THEN PageResume(t, [u EXCEPT !.nxt = NoMedia], <<>>)
  ELSE PageCommit(u, Add(Remove(tasks, t), Selected(t, pl)))

\* getAssetUrl of one attempt of task t has answered (page.tsx:153-177); the
\* page loads one URL for an asset
PageResolveAttempt(t, ok) ==
  /\ Loading(t) /\ ~t.wait
  /\ reliable => ok
  /\ ok => nextRes <= limits.res
  /\ nextRes' = IF ok THEN nextRes + 1 ELSE nextRes
  /\ LET media == [asset |-> t.asset, res |-> nextRes]
     IN  IF ok /\ t.pc = "first"
         THEN \* startSlideshow (page.tsx:336-337, 345)
              PagePreload(t, [P0 EXCEPT !.cur = media, !.curSet = TRUE], t.rest)
         ELSE IF ok
         THEN \* preloadNextAsset (page.tsx:191-192, 197)
              PageResume(t, [P0 EXCEPT !.nxt = media], t.rest)
         ELSE IF t.retries > 0
         THEN PageCommit(P0, Add(Remove(tasks, t), Failed(t)))
         ELSE IF t.pc = "first"
         THEN \* startSlideshow sets the null it got as current (page.tsx:337)
              PagePreload(t, [P0 EXCEPT !.cur = NoMedia, !.sk = GivenUp(t)], t.rest)
         ELSE \* preloadNextAsset tries the next one (page.tsx:193-196)
              PagePreload(t, [P0 EXCEPT !.sk = GivenUp(t)], t.rest)
  /\ UNCHANGED mounted

\* handleDateReset (page.tsx:374-386) and handleDateSelect (388-407), offered
\* by the settings popover, which Home renders past the loading and error
\* screens (page.tsx:509-528, 644-670); date 0 is the reset to latest
PageReset(date) ==
  /\ mounted /\ ~isLoading /\ error = "none"
  /\ epoch < MaxResets
  /\ PageCommit([P0 EXCEPT !.c = date, !.w = "reset", !.tb = date, !.ep = epoch + 1, !.sk = {},
                           !.pl = <<>>, !.plSet = TRUE,
                           !.cur = NoMedia, !.curSet = (currentMedia # NoMedia),
                           !.nxt = NoMedia, !.ld = TRUE, !.ft = TRUE], tasks)
  /\ UNCHANGED <<mounted, nextRes>>

handleDateReset == PageReset(0)

handleDateSelect(date) == date # 0 /\ PageReset(date)

\* advanceToNextAsset of Home without a next (page.tsx:202-209)
PageNotReady == [P0 EXCEPT !.ft = (Len(playlist) = 0) \/ isFetching, !.fired = TRUE]

\* the advance that advanceToNextAsset of Home starts: its closure holds
\* playlist, the url of currentMedia and nextMedia (page.tsx:211-219, 229)
PageFade ==
  [LoadTask("adv", "fade", NoAsset, playlist, currentMedia, nextMedia, epoch)
     EXCEPT !.held = playlist]

\* advanceToNextAsset of Home (page.tsx:201-212) called by the rotation timer
\* (361) or by the video element when it ends (570)
PageAdvance(src) ==
  /\ \/ src = "timer" /\ timerArmed
     \/ src = "video" /\ videoPlaying
  /\ IF nextMedia = NoMedia
     THEN PageCommit(PageNotReady, tasks)
     ELSE PageCommit([P0 EXCEPT !.fd = TRUE, !.fired = TRUE], Add(tasks, PageFade))
  /\ UNCHANGED <<mounted, nextRes>>

\* advanceToNextAsset of Home after the 500 ms fade: it promotes its next and
\* preloads from its playlist (page.tsx:213-219)
PageFadeDone(t) ==
  /\ t.type = "adv" /\ t.pc = "fade"
  /\ PagePreload(t, [P0 EXCEPT !.cur = t.nxt, !.curSet = (t.nxt # currentMedia)], t.rest)
  /\ UNCHANGED <<mounted, nextRes>>

PageNext ==
  \/ PageMount
  \/ handleDateReset
  \/ \E date \in PickDates : handleDateSelect(date)
  \/ \E t \in BagToSet(tasks) : \E ok \in BOOLEAN : PageFetchResponse(t, ok)
  \/ \E t \in BagToSet(tasks) : PageFetchFinally(t)
  \/ \E t \in BagToSet(tasks) : \E ok \in BOOLEAN : PageResolveAttempt(t, ok)
  \/ \E t \in BagToSet(tasks) : RetryDelayDone(t)

PageSpec == PageInit /\ [][PageNext]_vars

PageFairness ==
  /\ WF_vars(PageMount)
  /\ WF_vars(\E t \in BagToSet(tasks) : \E ok \in BOOLEAN : PageFetchResponse(t, ok))
  /\ WF_vars(\E t \in BagToSet(tasks) : PageFetchFinally(t))
  /\ WF_vars(\E t \in BagToSet(tasks) : \E ok \in BOOLEAN : PageResolveAttempt(t, ok))
  /\ WF_vars(\E t \in BagToSet(tasks) : RetryDelayDone(t))

PageLiveSpec == PageInit /\ [][PageNext]_vars /\ PageFairness

\* Home from its startup on with its rotation, the user leaving the timeline
\* alone
PageRotationNext ==
  \/ PageMount
  \/ \E t \in BagToSet(tasks) : \E ok \in BOOLEAN : PageFetchResponse(t, ok)
  \/ \E t \in BagToSet(tasks) : PageFetchFinally(t)
  \/ \E t \in BagToSet(tasks) : \E ok \in BOOLEAN : PageResolveAttempt(t, ok)
  \/ \E t \in BagToSet(tasks) : RetryDelayDone(t)
  \/ \E src \in {"timer", "video"} : PageAdvance(src)
  \/ \E t \in BagToSet(tasks) : PageFadeDone(t)

PageRotationSpec == PageInit /\ [][PageRotationNext]_vars

\* ------------------------------------------------- progress bar on its own
\* durations in ms a video element reports
VideoDurations == {9500, 20000}

\* useRef<number>(0) (useSlideshow.ts:43); the hook never assigns it
videoDurationRef == 0

\* displayDuration of the progress effect (useSlideshow.ts:230-233)
displayDuration(type) ==
  IF type = "VIDEO" /\ videoDurationRef > 0 THEN videoDurationRef * 1000 ELSE DURATION

\* progress before the effect has run, for an element of kind k: what the
\* video element reports
Reported(k) ==
  {[NoProgress EXCEPT !.d = d] : d \in IF k = "VIDEO" THEN VideoDurations ELSE {0}}

\* a slideshow that is playing asset a, whose element reports d
ProgressInit ==
  /\ configError = FALSE /\ catSize = NumAssets /\ inclusive = TRUE /\ reliable = TRUE
  /\ limits = [tasks |-> MaxTasks, res |-> MaxRes, log |-> FALSE]
  /\ kind = [a \in Assets |-> IF a % 2 = 0 THEN "VIDEO" ELSE "IMAGE"]
  /\ \E a \in Assets :
       /\ currentMedia = [asset |-> a, res |-> 1]
       /\ cursor = fileCreatedAt(a)
       /\ timerArmed = (kind[a] = "IMAGE")
       /\ videoPlaying = (kind[a] = "VIDEO")
       /\ progress \in Reported(kind[a])
  /\ playlist = <<>> /\ nextMedia = NoMedia
  /\ isLoading = FALSE /\ isFetching = FALSE /\ isFading = FALSE /\ error = "none"
  /\ tasks = EmptyBag /\ mounted = TRUE /\ nextRes = 2
  /\ releaseCalls = [n \in 1..limits.res |-> 0] /\ promoted = {}
  /\ epoch = 0 /\ lastWrite = "promo" /\ skipped = {} /\ call = NoCall /\ frame = NoFrame /\ album = NoAlbum /\ takenBefore = 0

\* progress effect (useSlideshow.ts:221-242) runs for the current media
ProgressEffect ==
  /\ ~progress.running
  /\ ~isLoading /\ error = "none" /\ currentMedia # NoMedia
  /\ displayDuration(kind[currentMedia.asset]) > 0
  /\ progress' = [progress EXCEPT !.num = 0, !.running = TRUE, !.elapsed = 0, !.ran = TRUE,
                                   !.den = displayDuration(kind[currentMedia.asset])]
  /\ UNCHANGED <<mainVars, call>>

\* setProgress(p => Math.min(p + (100 / (displayDuration / 100)), 100)) every
\* TICK ms (useSlideshow.ts:237-239): p + 100 * TICK / den, as num / den
Stepped_Uncapped(pr) == pr.num + 100 * TICK

Stepped(pr) == IF pr.num + 100 * TICK >= 100 * pr.den THEN 100 * pr.den ELSE pr.num + 100 * TICK

ProgressTick ==
  /\ progress.running /\ progress.elapsed < MaxElapsed
  /\ progress' = [progress EXCEPT !.num = Stepped(progress), !.elapsed = @ + TICK]
  /\ UNCHANGED <<mainVars, call>>

\* a commit changes a dependency of the progress effect (useSlideshow.ts:242):
\* another media m becomes current, or isLoading or error change.  The cleanup
\* clears the interval (241) and the effect sets progress to 0 (223, 228); with
\* m playing, ProgressEffect then starts the new interval
ProgressDepsChange(m, ld, err) ==
  /\ m # currentMedia \/ ld # isLoading \/ err # error
  /\ currentMedia' = m /\ isLoading' = ld /\ error' = err
  /\ timerArmed' = (~ld /\ m # NoMedia /\ kind[m.asset] = "IMAGE")
  /\ videoPlaying' = VideoMounted(ld, err, m)
  /\ cursor' = SaveDate([U0 EXCEPT !.cur = m, !.curSet = (m # currentMedia)])
  /\ progress' \in Reported(IF m = NoMedia THEN "IMAGE" ELSE kind[m.asset])
  /\ UNCHANGED <<playlist, nextMedia, isFetching, isFading, tasks, mounted, nextRes,
                 releaseCalls, promoted, epoch, lastWrite, skipped, takenBefore, call, frame, album, configVars>>

ProgressNext ==
  \/ ProgressEffect
  \/ ProgressTick
  \/ \E a \in Assets \cup {NoAsset}, ld \in BOOLEAN, err \in {"none", "connect"} :
       ProgressDepsChange(IF a = NoAsset THEN NoMedia ELSE [asset |-> a, res |-> nextRes],
                          ld, err)

ProgressSpec == ProgressInit /\ [][ProgressNext]_vars

\* ------------------------------ progress bar of src/app/page.tsx on its own
\* what the video element of Home can report when the effect runs: no duration
\* yet (NaN), a duration of 0, or a duration in ms
PageReported(k) ==
  IF k = "VIDEO"
  THEN {[NoProgress EXCEPT !.nan = TRUE]}
         \cup {[NoProgress EXCEPT !.d = d] : d \in VideoDurations \cup {0}}
  ELSE {[NoProgress EXCEPT !.nan = TRUE]}

\* displayDuration of the progress effect of Home (page.tsx:419-422); videoRef
\* holds the element of a VIDEO current
PageDisplayDuration(type, pr) == IF type = "VIDEO" /\ ~pr.nan THEN pr.d ELSE DURATION

PageProgressInit ==
  /\ configError = FALSE /\ catSize = NumAssets /\ inclusive = TRUE /\ reliable = TRUE
  /\ limits = [tasks |-> MaxTasks, res |-> MaxRes, log |-> FALSE]
  /\ kind = [a \in Assets |-> IF a % 2 = 0 THEN "VIDEO" ELSE "IMAGE"]
  /\ \E a \in Assets :
       /\ currentMedia = [asset |-> a, res |-> 1]
       /\ cursor = fileCreatedAt(a)
       /\ timerArmed = (kind[a] = "IMAGE")
       /\ videoPlaying = (kind[a] = "VIDEO")
       /\ progress \in PageReported(kind[a])
  /\ playlist = <<>> /\ nextMedia = NoMedia
  /\ isLoading = FALSE /\ isFetching = FALSE /\ isFading = FALSE /\ error = "none"
  /\ tasks = EmptyBag /\ mounted = TRUE /\ nextRes = 2
  /\ releaseCalls = [n \in 1..limits.res |-> 0] /\ promoted = {}
  /\ epoch = 0 /\ lastWrite = "promo" /\ skipped = {} /\ call = NoCall /\ frame = NoFrame /\ album = NoAlbum /\ takenBefore = 0

\* progress effect of Home (page.tsx:411-431) runs for the current media: it
\* starts the interval unless displayDuration <= 0 (424)
PageProgressEffect ==
  /\ ~progress.ran
  /\ ~isLoading /\ error = "none" /\ currentMedia # NoMedia
  /\ LET dd == PageDisplayDuration(kind[currentMedia.asset], progress)
     IN  progress' = [progress EXCEPT !.num = 0, !.running = (dd > 0), !.elapsed = 0,
                                      !.ran = TRUE, !.den = dd]
  /\ UNCHANGED <<mainVars, call>>

PageProgressNext == PageProgressEffect \/ ProgressTick

PageProgressSpec == PageProgressInit /\ [][PageProgressNext]_vars

\* ------------- useSlideshow of src/hooks/useWeather.ts: catalog fetched inline
\* This version of the hook has no fetch effect and no save-date effect:
\* startSlideshow, preloadNextAsset and handleTimelineChange await fetchAssets
\* themselves, and setCurrentMediaAndMarkVisited writes the cursor.
InlineInit == RaceInit

\* setCurrentMediaAndMarkVisited(media) (useWeather.ts:120-128) after the updates u
setCurrentMediaAndMarkVisited(u, m) ==
  [u EXCEPT !.cur = m, !.curSet = (m # u.cur),
            !.c = IF m # NoMedia THEN fileCreatedAt(m.asset) ELSE @,
            !.w = IF m # NoMedia THEN "promo" ELSE @]

\* React commits the batch u and re-runs the rotation timer effect
\* (useWeather.ts:260-268) and the force-play effect (272-282), whose
\* dependency advanceToNextAsset changes with nextMedia, playlist, currentMedia
\* and isFading
InlineCommit(u, tk) ==
  LET deps == u.curSet \/ u.nxtSet \/ u.plSet \/ u.fd # isFading
      sameElement == VideoMounted(isLoading, error, currentMedia)
                     /\ VideoMounted(u.ld, u.err, u.cur)
                     /\ currentMedia.asset = u.cur.asset
  IN  /\ playlist' = u.pl
      /\ currentMedia' = u.cur
      /\ nextMedia' = u.nxt
      /\ isLoading' = u.ld
      /\ isFetching' = u.ft
      /\ isFading' = u.fd
      /\ error' = u.err
      /\ tasks' = tk
      /\ BagCardinality(tk) <= limits.tasks
      /\ cursor' = u.c
      /\ lastWrite' = IF u.w # "none" THEN u.w ELSE lastWrite
      /\ skipped' = u.sk
      /\ timerArmed' = IF u.ld # isLoading \/ deps
                       THEN ~u.ld /\ u.cur # NoMedia /\ kind[u.cur.asset] = "IMAGE"
                       ELSE timerArmed /\ ~u.fired
      /\ videoPlaying' = IF ~VideoMounted(u.ld, u.err, u.cur) THEN FALSE
                         ELSE IF deps THEN TRUE
                         ELSE sameElement /\ videoPlaying /\ ~u.fired

\* a function of the hook awaits fetchAssets(), which reads the cursor c
\* (useImmich.ts:36)
Awaiting(t, pc, c) == [t EXCEPT !.pc = pc, !.tb = c, !.ftb = c]

\* mount effect (useWeather.ts:212-256): startSlideshow up to its first await
InlineMount ==
  /\ ~mounted
  /\ mounted' = TRUE
  /\ IF configError
     THEN InlineCommit([U0 EXCEPT !.err = "config", !.ld = FALSE], tasks)
     ELSE InlineCommit([U0 EXCEPT !.ft = TRUE],
                       Add(tasks, Awaiting(LoadTask("start", "fetch", NoAsset, <<>>, NoMedia,
                                                    NoMedia, epoch), "fetch", cursor)))
  /\ UNCHANGED <<nextRes, releaseCalls, promoted, epoch, call, frame, album, progress, takenBefore, configVars>>

\* the caller of preloadNextAsset resumes with the playlist it returned:
\* startSlideshow (useWeather.ts:250-251), handleTimelineChange (332, 338) or
\* advanceToNextAsset (189, 194, 199-205)
InlineResume(t, u, pl) ==
  LET u1 == [u EXCEPT !.pl = pl, !.plSet = TRUE]
  IN  IF t.type = "adv"
      THEN /\ InlineCommit(IF t.nxt # NoMedia /\ kind[t.nxt.asset] = "VIDEO"
                           THEN u1 ELSE [u1 EXCEPT !.fd = FALSE], Remove(tasks, t))
           /\ releaseCalls' = Counted(t.old)
      ELSE /\ InlineCommit([u1 EXCEPT !.ld = FALSE], Remove(tasks, t))
           /\ UNCHANGED releaseCalls

\* preloadNextAsset(pl) up to its first await (useWeather.ts:131-159): with
\* an empty pl it asks the catalog itself
InlinePreload(t, u, pl) ==
  /\ IF pl = <<>>
     THEN InlineCommit([u EXCEPT !.ft = TRUE, !.err = "none"],
                       Add(Remove(tasks, t), Awaiting(t, "refill", u.c)))
     ELSE InlineCommit(u, Add(Remove(tasks, t), Selected(t, pl)))
  /\ UNCHANGED releaseCalls

\* fetchAssets has returned r, or null when ~ok (useWeather.ts:221-237,
\* 140-152, 324-341)
Fetched(t, ok, r) ==
  LET u == [U0 EXCEPT !.ft = FALSE]
      got == ok /\ r # <<>>
  IN  IF t.pc = "refill"
      THEN IF got
           THEN /\ InlineCommit(u, Add(Remove(tasks, t), Selected(t, r)))
                /\ UNCHANGED releaseCalls
           ELSE InlineResume(t, [u EXCEPT !.nxt = NoMedia, !.nxtSet = (nextMedia # NoMedia),
                                          !.err = IF ~ok THEN "connect" ELSE @], <<>>)
      ELSE /\ UNCHANGED releaseCalls
           /\ IF got
              THEN InlineCommit(IF t.type = "start" THEN u ELSE U0,
                                Add(Remove(tasks, t), [Selected(t, r) EXCEPT !.pc = "first"]))
              ELSE IF t.type = "start"
              THEN InlineCommit([u EXCEPT !.err = "nophotos", !.ld = FALSE], Remove(tasks, t))
              ELSE InlineCommit([U0 EXCEPT !.err = "nophotos", !.ld = FALSE], Remove(tasks, t))

\* the request of the fetchAssets call that task t awaits is answered
\* (useImmich.ts:51-80)
InlineFetchResponse(t, ok) ==
  /\ t.pc \in {"fetch", "refill"}
  /\ reliable => ok
  /\ LET items == SearchMetadata(t.ftb)
     IN  IF ~ok THEN Fetched(t, FALSE, <<>>)
         ELSE IF items = <<>> /\ t.ftb # 0
         THEN \* end of the timeline: fetchAssets calls itself (useImmich.ts:69-74)
              /\ InlineCommit([U0 EXCEPT !.c = 0, !.w = "wrap", !.sk = {}],
                              Add(Remove(tasks, t), [t EXCEPT !.ftb = 0]))
              /\ UNCHANGED releaseCalls
         ELSE Fetched(t, TRUE, items)
  /\ UNCHANGED <<mounted, nextRes, promoted, epoch, call, frame, album, progress, takenBefore, configVars>>

\* the advance that advanceToNextAsset starts (useWeather.ts:174)
InlineFade == LoadTask("adv", "fade", NoAsset, playlist, currentMedia, nextMedia, epoch)

\* advanceToNextAsset after the fade, or at once for a VIDEO next
\* (useWeather.ts:183-195)
Promote(t, u) ==
  IF t.nxt # NoMedia
  THEN /\ promoted' = Promoted(t.nxt)
       /\ InlinePreload(t, setCurrentMediaAndMarkVisited(u, t.nxt), t.rest)
  ELSE /\ UNCHANGED promoted
       /\ InlinePreload(t, u, t.rest)

\* advanceToNextAsset (useWeather.ts:171-182) called by the rotation timer or
\* by the video element
InlineAdvance(src) ==
  /\ \/ src = "timer" /\ timerArmed
     \/ src = "video" /\ videoPlaying
  /\ \A n \in DOMAIN releaseCalls : releaseCalls[n] < MaxReleases
  /\ IF isFading
     THEN /\ InlineCommit([U0 EXCEPT !.fired = TRUE], tasks)
          /\ UNCHANGED <<promoted, releaseCalls>>
     ELSE IF nextMedia # NoMedia /\ kind[nextMedia.asset] = "VIDEO"
     THEN Promote(InlineFade, [U0 EXCEPT !.fired = TRUE])
     ELSE /\ InlineCommit([U0 EXCEPT !.fd = TRUE, !.fired = TRUE], Add(tasks, InlineFade))
          /\ UNCHANGED <<promoted, releaseCalls>>
  /\ UNCHANGED <<mounted, nextRes, epoch, call, frame, album, progress, takenBefore, configVars>>

\* the 500 ms fade of an advance is over (useWeather.ts:180-195)
InlineFadeDone(t) ==
  /\ t.type = "adv" /\ t.pc = "fade"
  /\ Promote(t, U0)
  /\ UNCHANGED <<mounted, nextRes, epoch, call, frame, album, progress, takenBefore, configVars>>

\* the fetches of one attempt of getAssetWithRetry for task t have answered
InlineResolveAttempt(t, origOk, prevOk) ==
  /\ t.pc \in {"first", "pre"} /\ ~t.wait
  /\ kind[t.asset] = "IMAGE" => origOk = prevOk
  /\ LET ok == AttemptOk(kind[t.asset], origOk, prevOk)
         media == [asset |-> t.asset, res |-> nextRes]
     IN  /\ reliable => ok
         /\ ok => nextRes <= limits.res
         /\ nextRes' = IF ok THEN nextRes + 1 ELSE nextRes
         /\ IF ok /\ t.pc = "first"
            THEN \* startSlideshow (useWeather.ts:246-249), handleTimelineChange (330-331)
                 /\ promoted' = Promoted(media)
                 /\ InlinePreload(t, setCurrentMediaAndMarkVisited(U0, media), t.rest)
            ELSE IF ok
            THEN \* preloadNextAsset (useWeather.ts:161-163)
                 /\ InlineResume(t, [U0 EXCEPT !.nxt = media, !.nxtSet = TRUE], t.rest)
                 /\ UNCHANGED promoted
            ELSE IF t.retries > 0
            THEN /\ InlineCommit(U0, Add(Remove(tasks, t), Failed(t)))
                 /\ UNCHANGED <<promoted, releaseCalls>>
            ELSE IF t.pc = "first" /\ t.type = "start"
            THEN \* startSlideshow (useWeather.ts:240-244)
                 /\ InlineCommit([U0 EXCEPT !.err = "first", !.ld = FALSE, !.sk = GivenUp(t)],
                                 Remove(tasks, t))
                 /\ UNCHANGED <<promoted, releaseCalls>>
            ELSE IF t.pc = "first"
            THEN \* handleTimelineChange sets the null it got (useWeather.ts:329-331)
                 /\ InlinePreload(t, setCurrentMediaAndMarkVisited([U0 EXCEPT !.sk = GivenUp(t)],
                                                                   NoMedia), t.rest)
                 /\ UNCHANGED promoted
            ELSE \* preloadNextAsset tries the next one (useWeather.ts:164-167)
                 /\ InlinePreload(t, [U0 EXCEPT !.sk = GivenUp(t)], t.rest)
                 /\ UNCHANGED promoted
  /\ UNCHANGED <<mounted, epoch, call, frame, album, progress, takenBefore, configVars>>

\* the RETRY_DELAY of the attempt of task t is over (useImmich.ts:152-153)
InlineRetryDelayDone(t) ==
  /\ t.pc \in {"first", "pre"} /\ t.wait
  /\ tasks' = Add(Remove(tasks, t), Delayed(t))
  /\ UNCHANGED <<reactVars, cursor, timerArmed, videoPlaying, mounted, nextRes, releaseCalls,
                 promoted, epoch, lastWrite, skipped, call, frame, album, progress, takenBefore, configVars>>

\* handleTimelineChange (useWeather.ts:311-324) up to its first await
InlineTimelineChange(date) ==
  /\ mounted /\ ~isLoading /\ error = "none"
  /\ epoch < MaxResets
  /\ epoch' = epoch + 1
  /\ InlineCommit([U0 EXCEPT !.c = date, !.w = "reset", !.ep = epoch + 1, !.sk = {},
                             !.pl = <<>>, !.plSet = TRUE,
                             !.cur = NoMedia, !.curSet = (currentMedia # NoMedia),
                             !.nxt = NoMedia, !.nxtSet = (nextMedia # NoMedia),
                             !.ld = TRUE],
                  Add(tasks, Awaiting(LoadTask("reset", "fetch", NoAsset, <<>>, NoMedia,
                                               NoMedia, epoch + 1), "fetch", date)))
  /\ UNCHANGED <<mounted, nextRes, releaseCalls, promoted, call, frame, album, progress, takenBefore, configVars>>

InlineNext ==
  \/ InlineMount
  \/ \E t \in BagToSet(tasks) : \E ok \in BOOLEAN : InlineFetchResponse(t, ok)
  \/ \E src \in {"timer", "video"} : InlineAdvance(src)
  \/ \E t \in BagToSet(tasks) : InlineFadeDone(t)
  \/ \E t \in BagToSet(tasks) : \E o, p \in BOOLEAN : InlineResolveAttempt(t, o, p)
  \/ \E t \in BagToSet(tasks) : InlineRetryDelayDone(t)
  \/ \E date \in PickDates : InlineTimelineChange(date)

InlineSpec == InlineInit /\ [][InlineNext]_vars

\* every request is answered or times out and every setTimeout fires; nothing
\* obliges the user to act or the rotation to go on
InlineFairness ==
  /\ WF_vars(InlineMount)
  /\ WF_vars(\E t \in BagToSet(tasks) : \E ok \in BOOLEAN : InlineFetchResponse(t, ok))
  /\ WF_vars(\E t \in BagToSet(tasks) : InlineFadeDone(t))
  /\ WF_vars(\E t \in BagToSet(tasks) : \E o, p \in BOOLEAN : InlineResolveAttempt(t, o, p))
  /\ WF_vars(\E t \in BagToSet(tasks) : InlineRetryDelayDone(t))

\* the same hook with one asynchronous function in flight at a time
InlineLiveSpec == Init /\ [][InlineNext]_vars /\ InlineFairness

\* ------- the album-based Home (src/unnamed/part_001, part_002): two containers
\* the slideshow engine is not part of these pages
Idle ==
  /\ configError = FALSE /\ catSize = NumAssets /\ inclusive = TRUE /\ reliable = FALSE
  /\ limits = [tasks |-> MaxTasks, res |-> MaxRes, log |-> FALSE]
  /\ cursor = 0
  /\ call = NoCall
  /\ progress = NoProgress
  /\ takenBefore = 0
  /\ Unmounted

\* useState initial values of either page (part_001:35-45, part_002:42-55)
FrameInit ==
  /\ Idle
  /\ album = NoAlbum
  /\ frame \in {[NoFrame EXCEPT !.variant = v] : v \in {"part_001", "part_002"}}

Hidden(f) == IF f.isAVisible THEN "B" ELSE "A"

Visible(f) == IF f.isAVisible THEN "A" ELSE "B"

UrlOf(f, c) == IF c = "A" THEN f.imageA ELSE f.imageB

\* setImageA / setImageB with url u
SetImage(f, c, u) == IF c = "A" THEN [f EXCEPT !.imageA = u] ELSE [f EXCEPT !.imageB = u]

\* the first image of the chosen album has been fetched (part_001:141-147,
\* part_002:222-226, 252): it goes to container A, or the error is set.  The
\* rotation timer of part_001 does not look at error (160)
FrameFirstImage(ok) ==
  /\ frame.variant # "none" /\ frame.isLoading
  /\ frame' = IF ok
              THEN [SetImage(frame, "A", frame.urls + 1)
                      EXCEPT !.urls = @ + 1, !.isLoading = FALSE, !.timer = TRUE,
                             !.loading = {"A"}]
              ELSE [frame EXCEPT !.error = TRUE, !.isLoading = FALSE,
                                 !.timer = (frame.variant = "part_001")]
  /\ UNCHANGED <<slideVars, call, progress, album>>

\* the rotation timer fires and the next image has been fetched (part_001:
\* 162-176, part_002:114-148, 264-272): the new url goes to the container that
\* is not visible.  DURATION is longer than the 1000 ms of the switch and than
\* the decoding of a blob URL, so no timeout of a switch is pending and no
\* onLoad is outstanding.  A failed fetch leaves part_001 without a timer (no
\* dependency of 179 changes); part_002 skips the image (146)
FrameTimer(ok) ==
  /\ frame.timer /\ ~frame.nextImageLoaded /\ frame.timeouts = {} /\ frame.loading = {}
  /\ frame.urls < MaxUrls
  /\ frame' = IF ok
              THEN [SetImage(frame, Hidden(frame), frame.urls + 1)
                      EXCEPT !.urls = @ + 1,
                             !.loading = IF frame.error THEN @ ELSE @ \cup {Hidden(frame)}]
              ELSE [frame EXCEPT !.timer = (frame.variant = "part_002")]
  /\ UNCHANGED <<slideVars, call, progress, album>>

\* onLoad of the foreground Image of container c (part_001:293-296, 325-328)
FrameOnLoad(c) ==
  /\ c \in frame.loading
  /\ frame' = [frame EXCEPT !.loading = @ \ {c},
                            !.nextImageLoaded = @ \/ (c = Hidden(frame))]
  /\ UNCHANGED <<slideVars, call, progress, album>>

\* the timeout the visibility-switch effect of part_001 sets (188, 197-208):
\* oldUrlToRevoke and the isAVisible of the render the effect runs in
Timeout001(f) ==
  LET oldUrlToRevoke == IF f.isAVisible THEN f.imageB ELSE f.imageA
  IN  IF oldUrlToRevoke # 0
      THEN {[url |-> oldUrlToRevoke, clear |-> IF f.isAVisible THEN "B" ELSE "A"]}
      ELSE {}

\* the timeout the visibility-switch effect of part_002 sets (278, 284-292)
Timeout002(f) ==
  LET newIsAVisible == ~f.isAVisible
  IN  {[url |-> IF newIsAVisible THEN f.imageB ELSE f.imageA,
        clear |-> IF newIsAVisible THEN "B" ELSE "A"]}

\* visibility-switch effect (part_001:182-210, part_002:275-294); the flip
\* changes a dependency of the rotation timer, which starts again
FrameSwitch ==
  /\ frame.nextImageLoaded
  /\ frame' = [frame EXCEPT !.isAVisible = ~@, !.nextImageLoaded = FALSE, !.timer = TRUE,
                            !.timeouts = @ \cup (IF frame.variant = "part_001"
                                                 THEN Timeout001(frame)
                                                 ELSE Timeout002(frame))]
  /\ UNCHANGED <<slideVars, call, progress, album>>

\* the timeout c of a switch fires (part_001:199-207, part_002:284-292): the
\* url is revoked (part_002: if it is not '') and the container is cleared
FrameCleanup(c) ==
  /\ c \in frame.timeouts
  /\ frame' = [SetImage(frame, c.clear, 0)
                 EXCEPT !.timeouts = @ \ {c}, !.loading = @ \ {c.clear},
                        !.revoked = IF c.url # 0 THEN @ \cup {c.url} ELSE @]
  /\ UNCHANGED <<slideVars, call, progress, album>>

FrameNext ==
  \/ \E ok \in BOOLEAN : FrameFirstImage(ok)
  \/ \E ok \in BOOLEAN : FrameTimer(ok)
  \/ \E c \in {"A", "B"} : FrameOnLoad(c)
  \/ FrameSwitch
  \/ \E c \in frame.timeouts : FrameCleanup(c)

FrameSpec == FrameInit /\ [][FrameNext]_vars

\* ---------- the album-based Home (src/unnamed/part_002): findAndLoadAlbum
AlbumInit ==
  /\ Idle
  /\ frame = NoFrame
  /\ album = [NoAlbum EXCEPT !.pc = "mount"]

\* findAndLoadAlbum is called and runs to its first await (part_002:162-166,
\* 189)
FindAndLoadAlbum(a) ==
  [a EXCEPT !.isLoading = TRUE, !.error = "none", !.examined = <<>>,
            !.initialAlbumIndex = a.albumIndex,
            !.pc = IF a.albumPlaylist = 0 THEN "list" ELSE "details"]

\* the effect at mount: currentAssets is empty (part_002:154-159, 257-259)
AlbumMount ==
  /\ album.pc = "mount"
  /\ album' = FindAndLoadAlbum(album)
  /\ UNCHANGED <<slideVars, call, progress, frame>>

\* the album list answers (part_002:166-185): n albums, or the request fails
AlbumListResponse(ok, n) ==
  /\ album.pc = "list"
  /\ album' = IF ~ok THEN [album EXCEPT !.error = "connect", !.isLoading = FALSE, !.pc = "done"]
              ELSE IF n = 0
              THEN [album EXCEPT !.error = "noalbums", !.isLoading = FALSE, !.pc = "done"]
              ELSE [album EXCEPT !.albumPlaylist = n, !.pc = "details"]
  /\ UNCHANGED <<slideVars, call, progress, frame>>

\* the album at albumIndex.current is given up as `outcome`, and the loop goes
\* to the next one or, back at initialAlbumIndex, ends with the error err
\* (part_002:231-239, 241-250)
NextAlbum_NoWrapCheck(a, outcome, err) ==
  [a EXCEPT !.albumIndex = (a.albumIndex + 1) % a.albumPlaylist,
            !.examined = Append(@, [album |-> a.albumIndex, outcome |-> outcome]),
            !.pc = "details"]

NextAlbum(a, outcome, err) ==
  LET i == (a.albumIndex + 1) % a.albumPlaylist
      b == [a EXCEPT !.albumIndex = i,
                     !.examined = Append(@, [album |-> a.albumIndex, outcome |-> outcome])]
  IN  IF i = a.initialAlbumIndex
      THEN [b EXCEPT !.error = err, !.isLoading = FALSE, !.pc = "done"]
      ELSE [b EXCEPT !.pc = "details"]

\* the details of the album at albumIndex.current answer (part_002:193-220):
\* the request fails, or n assets pass the filters
AlbumDetailsResponse(ok, n) ==
  /\ album.pc = "details"
  /\ album' = IF ~ok THEN NextAlbum(album, "failed", "tried")
              ELSE IF n = 0 THEN NextAlbum(album, "empty", "nomatch")
              ELSE [album EXCEPT !.currentAssets = n, !.assetIndex = 0, !.pc = "first"]
  /\ UNCHANGED <<slideVars, call, progress, frame>>

\* getImageWithRetry has answered for the first asset of the album
\* (part_002:222-230, 252): the album is loaded, or the throw is caught
AlbumFirstImage(ok) ==
  /\ album.pc = "first"
  /\ album' = IF ok
              THEN [album EXCEPT !.examined = Append(@, [album |-> album.albumIndex,
                                                          outcome |-> "loaded"]),
                                 !.isLoading = FALSE, !.pc = "done"]
              ELSE NextAlbum(album, "noimage", "tried")
  /\ UNCHANGED <<slideVars, call, progress, frame>>

\* the rotation timer calls loadNextAsset (part_002:114-148, 264-272): the
\* next asset of the album, shown or skipped, or past the last one the next
\* album, for which the effect calls findAndLoadAlbum (257-259)
LoadNextAsset ==
  /\ album.pc = "done" /\ ~album.isLoading /\ album.error = "none"
  /\ album.currentAssets > 0
  /\ album' = IF album.assetIndex + 1 >= album.currentAssets
              THEN FindAndLoadAlbum(
                     [album EXCEPT !.currentAssets = 0,
                                   !.albumIndex = IF @ + 1 >= album.albumPlaylist
                                                  THEN 0 ELSE @ + 1])
              ELSE [album EXCEPT !.assetIndex = @ + 1]
  /\ UNCHANGED <<slideVars, call, progress, frame>>

AlbumNext ==
  \/ AlbumMount
  \/ \E ok \in BOOLEAN, n \in 0..MaxAlbums : AlbumListResponse(ok, n)
  \/ \E ok \in BOOLEAN, n \in 0..MaxAlbumAssets : AlbumDetailsResponse(ok, n)
  \/ \E ok \in BOOLEAN : AlbumFirstImage(ok)
  \/ LoadNextAsset

\* every request is answered
AlbumFairness ==
  /\ WF_vars(AlbumMount)
  /\ WF_vars(\E ok \in BOOLEAN, n \in 0..MaxAlbums : AlbumListResponse(ok, n))
  /\ WF_vars(\E ok \in BOOLEAN, n \in 0..MaxAlbumAssets : AlbumDetailsResponse(ok, n))
  /\ WF_vars(\E ok \in BOOLEAN : AlbumFirstImage(ok))

AlbumSpec == AlbumInit /\ [][AlbumNext]_vars /\ AlbumFairness

\* ================================================================ claims

\* C1: for every sequence of advances (no reset), each resource promoted to
\* current is released exactly once: revokeAssetUrls is never called twice for
\* it, is called only for promoted resources, and a promoted resource that has
\* left the current slot is released or is the outgoing resource of an advance
\* that is still running (which releases it when it ends).
ReleasedExactlyOnce ==
  epoch = 0 =>
    \A n \in DOMAIN releaseCalls :
      /\ releaseCalls[n] <= 1
      /\ releaseCalls[n] = 1 => n \in promoted
      /\ (n \in promoted /\ currentMedia.res # n /\ releaseCalls[n] = 0)
           => \E t \in BagToSet(tasks) : t.type = "adv" /\ t.old.res = n

\* a function in flight that began before the last reset takes a step
StaleStep ==
  \E t \in BagToSet(tasks) : t.epoch < epoch /\ CopiesIn(t, tasks') < CopiesIn(t, tasks)

\* C2: when a resolve, advance or catalog fetch begun before a reset completes
\* after it, current, next, the playlist and the cursor stay as they are.
StaleResultDiscarded ==
  [][StaleStep => UNCHANGED <<currentMedia, nextMedia, playlist, cursor>>]_vars


\* the engine is Playing: current is set and the loading screen is gone
Playing == currentMedia # NoMedia /\ ~isLoading

\* C3 in the page component: from a stored cursor whose page is empty, in a
\* catalog that has assets, Home of page.tsx removes the cursor, fetches again
\* and comes to show a current asset.
PageWrapAroundReachesPlaying ==
  (~mounted /\ reliable /\ ~configError /\ cursor # 0
     /\ SearchMetadata(cursor) = <<>> /\ SearchMetadata(0) # <<>>)
    ~> Playing

PageStartReachesPlaying ==
  (~mounted /\ reliable /\ ~configError /\ SearchMetadata(cursor) # <<>>) ~> Playing

\* C3 in the hooks: started with a persisted cursor for which the catalog has no page, while
\* it has descriptors and every fetch and resolve succeeds, the engine removes
\* the cursor, fetches again, and reaches Playing with the newest descriptor as
\* current, without any user action.
WrapAroundReachesPlaying ==
  (~mounted /\ reliable /\ ~configError /\ cursor # 0
     /\ SearchMetadata(cursor) = <<>> /\ SearchMetadata(0) # <<>>)
    ~> (Playing /\ currentMedia.asset = Head(SearchMetadata(0)) /\ epoch = 0)

\* the wrap-around of C3 is under way: performFetch had read a cursor, the
\* cursor is removed and fetchAssets fetches again without it
WrapAroundWitness ==
  /\ reliable /\ isLoading /\ cursor = 0 /\ lastWrite = "wrap"
  /\ \E t \in BagToSet(tasks) : t.type = "fetch" /\ t.pc = "req" /\ t.tb # 0 /\ t.ftb = 0

\* the terminal "no media" condition
NoMediaTerminal == error = "nophotos" /\ ~isLoading /\ ~isFetching /\ tasks = EmptyBag

\* C4: started without a cursor on an empty catalog whose fetch succeeds, the
\* engine reaches the terminal "no media" condition (error set, not loading,
\* not fetching, nothing in flight), and once there it stays there: no further
\* fetch is issued.
EmptyCatalogIsTerminal ==
  /\ (~mounted /\ reliable /\ ~configError /\ cursor = 0 /\ SearchMetadata(0) = <<>>)
       ~> NoMediaTerminal
  /\ [][NoMediaTerminal => NoMediaTerminal']_vars

EmptyCatalogWitness == NoMediaTerminal /\ reliable /\ lastWrite = "none"


\* C5: a call getAssetWithRetry(D, k) that returns null has made exactly k + 1
\* attempts and has waited RETRY_DELAY between consecutive attempts, k times in
\* all; with the default k = 1 that is 2 attempts.
RetryBound ==
  call.result = "null" => call.att = call.k + 1 /\ call.waited = call.k * RETRY_DELAY

RetryBoundWitness ==
  call.result = "null" /\ call.k = DefaultRetries /\ call.att = 2 /\ call.waited = RETRY_DELAY


\* the attempt of task t that used up its retries has failed in this step
Exhausted(t) ==
  /\ Loading(t) /\ t.pc = "pre" /\ ~t.wait /\ t.retries = 0
  /\ CopiesIn(t, tasks') < CopiesIn(t, tasks)
  /\ nextRes' = nextRes

\* C6: when resolving the next descriptor has used up its retries, the
\* following descriptor of the playlist is resolved as next, the failed one is
\* not put back into the playlist, and no error is set because of it.
FailedNextIsSkipped ==
  [][\A t \in BagToSet(tasks) :
       Exhausted(t) =>
         /\ error' = error
         /\ IF t.rest # <<>>
            THEN /\ BagIn(Selected(t, t.rest), tasks')
                 /\ playlist' = playlist
            ELSE /\ nextMedia' = NoMedia
                 /\ playlist' = <<>>]_vars

FailedNextWitness ==
  /\ error = "none" /\ playlist = <<1, 2, 3>> /\ currentMedia.asset = 1
  /\ \E t \in BagToSet(tasks) :
       t.type = "start" /\ t.pc = "pre" /\ t.asset = 3 /\ t.rest = <<>>

Fades(b) == BagCardinality([t \in {x \in BagToSet(b) : x.pc = "fade"} |-> b[t]])

\* C8: one expiry of the rotation timer with an IMAGE current and a ready next
\* starts exactly one advance, which promotes that next exactly once; with the
\* promotion the cursor becomes the capture timestamp of the promoted resource.
OneExpiryOnePromotion ==
  /\ [][(timerArmed /\ nextMedia # NoMedia /\ Advance("timer"))
          => /\ kind[currentMedia.asset] = "IMAGE"
             /\ Fades(tasks') = Fades(tasks) + 1
             /\ BagIn(Fade, tasks')
             /\ ~timerArmed'
             /\ currentMedia' = currentMedia]_vars
  /\ [][\A t \in BagToSet(tasks) :
          (t.pc = "fade" /\ CopiesIn(t, tasks') < CopiesIn(t, tasks))
            => /\ currentMedia' = t.nxt
               /\ cursor' = fileCreatedAt(t.nxt.asset)
               /\ Fades(tasks') = Fades(tasks) - 1]_vars
  /\ [][Fades(tasks') > Fades(tasks) => \E src \in {"timer", "video"} : Advance(src)]_vars

OneExpiryWitness ==
  /\ epoch = 0
  /\ \E t \in BagToSet(tasks) :
       /\ t.type = "adv" /\ t.pc = "pre"
       /\ t.old # NoMedia /\ kind[t.old.asset] = "IMAGE"
       /\ currentMedia = t.nxt /\ cursor = fileCreatedAt(t.nxt.asset)

\* C9 as stated: while current is set and no reset has occurred, the cursor is
\* the capture timestamp of current.
CursorIsCurrent ==
  (currentMedia # NoMedia /\ epoch = 0) => cursor = fileCreatedAt(currentMedia.asset)

\* C9: every promotion writes the capture timestamp of the promoted resource
\* to the cursor, and while current is set and the cursor has not been written
\* by a reset or removed by a wrap-around since, the cursor is the capture
\* timestamp of current.
CursorFollowsPromotion ==
  /\ [](currentMedia # NoMedia /\ lastWrite = "promo"
          => cursor = fileCreatedAt(currentMedia.asset))
  /\ [][(currentMedia' # currentMedia /\ currentMedia' # NoMedia)
          => cursor' = fileCreatedAt(currentMedia'.asset) /\ lastWrite' = "promo"]_vars

CursorFollowsWitness ==
  /\ currentMedia # NoMedia /\ lastWrite = "promo" /\ epoch = 0
  /\ currentMedia.res \in promoted /\ currentMedia.res > 1
  /\ cursor = fileCreatedAt(currentMedia.asset)

\* C10: for a VIDEO current that reports the duration d, progress is 100
\* exactly from d ms on (9500 ms for 9.5 s).
VideoProgressFollowsDuration ==
  (progress.running /\ kind[currentMedia.asset] = "VIDEO")
    => (progress.num = 100 * progress.den <=> progress.elapsed >= progress.d)

\* descriptors held outside the playlist: loaded as current or as next, or
\* selected by a startSlideshow or preloadNextAsset whose load is in flight
Held ==
  {currentMedia.asset, nextMedia.asset}
    \cup {t.asset : t \in {x \in BagToSet(tasks) : Loading(x)}}

InPlaylist(a) == \E i \in 1..Len(playlist) : playlist[i] = a

\* C11: in every reachable state the playlist does not contain the descriptor
\* that is loaded, or being loaded, as current or as next.
PlaylistExcludesHeld == \A a \in Held \ {NoAsset} : ~InPlaylist(a)

\* what a reset to date leaves behind, the resources aside: the playlist is
\* empty, current and next are unset, the cursor is date (0: removed), and the
\* engine is Loading with a refill requested
Restarted(date) ==
  /\ playlist' = <<>> /\ currentMedia' = NoMedia /\ nextMedia' = NoMedia
  /\ cursor' = date
  /\ isLoading' /\ isFetching'

ResetRestarts ==
  [][\A date \in PickDates : handleTimelineChange(date) => Restarted(date)]_vars

\* C12: a user reset to date T (0: reset to latest) clears the playlist,
\* releases the current and the next resource, sets the cursor to T (or removes
\* it), and re-enters Loading with a refill requested.
ResetReleasesBoth ==
  [][\A date \in PickDates :
       handleTimelineChange(date) =>
         /\ Restarted(date)
         /\ \A m \in {currentMedia, nextMedia} \ {NoMedia} :
              releaseCalls'[m.res] = releaseCalls[m.res] + 1]_vars

\* a step of an advance that was triggered while next was unset: the call of
\* advanceToNextAsset of either hook, or a later step of the function it started
NoNextAdvance ==
  \/ /\ nextMedia = NoMedia
     /\ \E src \in {"timer", "video"} : Advance(src) \/ InlineAdvance(src)
  \/ \E t \in BagToSet(tasks) :
       t.type = "adv" /\ t.nxt = NoMedia /\ CopiesIn(t, tasks') < CopiesIn(t, tasks)

\* C13: an advance triggered while next is unset promotes nothing: current is
\* unchanged, no resource is released, and the playlist and the cursor are
\* unchanged.
AdvanceWithoutNextKeepsAll ==
  [][NoNextAdvance
       => UNCHANGED <<currentMedia, playlist, cursor, releaseCalls, promoted>>]_vars

\* every request is answered, every setTimeout fires, and the rotation goes on:
\* an armed rotation timer expires and a playing video ends
RotationFairness ==
  /\ Fairness
  /\ WF_vars(\E src \in {"timer", "video"} : Advance(src))

RotationLiveSpec == RaceInit /\ [][Next]_vars /\ RotationFairness

\* the engine is Playing with next unset and the playlist exhausted
Stalled == Playing /\ error = "none" /\ nextMedia = NoMedia /\ playlist = <<>>

\* C14: Stalled self-heals: when the engine is Playing with next unset, the
\* playlist exhausted and nothing in flight, and the catalog has descriptors,
\* every fetch and resolve succeeds and a resource can still be created, next
\* eventually becomes set again (unless the user resets the timeline first).
StalledSelfHeals ==
  (Stalled /\ tasks = EmptyBag /\ epoch = 0 /\ reliable /\ catSize > 0
     /\ nextRes <= limits.res)
    ~> (nextMedia # NoMedia \/ epoch # 0)

\* catalog requests in flight
Requests(b) ==
  BagCardinality([t \in {x \in BagToSet(b) : x.type = "fetch" /\ x.pc = "req"} |-> b[t]])

\* C15: at most one catalog fetch is in flight at any time, whatever triggers
\* a refill while one is in flight.
OneRefillInFlight == Requests(tasks) <= 1

\* advances in flight: calls of advanceToNextAsset that are fading or preloading
Advances(b) == BagCardinality([t \in {x \in BagToSet(b) : x.type = "adv"} |-> b[t]])

\* C16: at most one advance is in flight at any time: an advance trigger that
\* arrives while a previous advance is still fading or preloading is ignored.
OneAdvanceInFlight == Advances(tasks) <= 1

\* C17: whenever the engine is past Loading (the loading screen is gone and no
\* error is reported), current holds a resolved resource: it is never left at
\* the null that a failed resolve returned.
CurrentIsResolved ==
  (mounted /\ ~isLoading /\ error = "none")
    => (currentMedia # NoMedia /\ currentMedia.res \in 1..(nextRes - 1))

\* the resources on screen: current, and the next that a fading advance is
\* about to promote
OnScreen ==
  {currentMedia} \cup {t.nxt : t \in {x \in BagToSet(tasks) : x.type = "adv" /\ x.pc = "fade"}}

\* C18: in no state has revokeAssetUrls been called for the resource that is
\* current or that is being promoted: the outgoing resource is released only
\* after another one has taken its place.
CurrentNeverReleased == \A m \in OnScreen \ {NoMedia} : releaseCalls[m.res] = 0

\* the Fatal state of a deployment without server address or credential: the
\* configuration error is reported, nothing was fetched and nothing is in flight
Fatal ==
  /\ error = "config" /\ ~isFetching /\ tasks = EmptyBag
  /\ playlist = <<>> /\ currentMedia = NoMedia /\ nextMedia = NoMedia
  /\ mounted => ~isLoading

FetchFailureIsRetried ==
  (error = "connect" /\ Requests(tasks) = 0) ~> (Requests(tasks) > 0)

\* the resolve of the first descriptor by task t has used up its retries in
\* this step
FirstExhausted(t) ==
  /\ t.pc = "first" /\ ~t.wait /\ t.retries = 0
  /\ CopiesIn(t, tasks') < CopiesIn(t, tasks)
  /\ nextRes' = nextRes

\* C21: at startup, when resolving the first descriptor has used up its
\* retries and the playlist has more descriptors, the engine stays in Loading
\* without an error and resolves the following descriptor as current.
FirstFailureSkips ==
  [][\A t \in BagToSet(tasks) :
       (FirstExhausted(t) /\ t.type = "start" /\ t.rest # <<>>)
         => /\ error' = error /\ isLoading'
            /\ \E n \in BagToSet(tasks') : n.pc = "first" /\ n.asset = Head(t.rest)]_vars

\* C22: the rotation timer is armed as soon as current is set and does not
\* wait for next: the step that sets the first current to an IMAGE leaves the
\* rotation timer armed, also when the resolve of next is still to come.
TimerArmedWithCurrent ==
  [][(currentMedia = NoMedia /\ currentMedia' # NoMedia
        /\ kind[currentMedia'.asset] = "IMAGE")
       => timerArmed']_vars

\* blob URLs the call has created and not revoked, those of the media it
\* returned aside
Leaked ==
  Cardinality((1..call.urls)
                \ ({call.url, call.previewUrl} \cup {call.revoked[i] : i \in DOMAIN call.revoked}))

\* C23: no blob URL created by a failed attempt of getAssetWithRetry remains
\* unreleased: when one fetch of a pair succeeds and the other fails, the URL
\* that was created is revoked before the attempt ends.
NoPartialLeak == call.result # "none" => Leaked = 0

\* current is a VIDEO
VideoCurrent == currentMedia # NoMedia /\ kind[currentMedia.asset] = "VIDEO"

\* C24: while current is a VIDEO the rotation timer is not armed and no expiry
\* of it calls advanceToNextAsset: every advance made while current is a VIDEO
\* comes from the video element (playback ended, or play() was rejected).
VideoAdvancesOnPlayback ==
  /\ [](VideoCurrent => ~timerArmed)
  /\ [][(VideoCurrent /\ \E src \in {"timer", "video"} : Advance(src))
          => videoPlaying /\ Advance("video")]_vars

\* a VIDEO that an advance promoted is playing, and its advance (still
\* preloading) was not followed by a timer
VideoPlaybackWitness ==
  /\ VideoCurrent /\ ~isLoading /\ error = "none" /\ videoPlaying /\ ~timerArmed
  /\ currentMedia.res \in promoted /\ currentMedia.res > 1

\* the element of current has no usable duration: current is an IMAGE, or a
\* VIDEO whose duration is unavailable or not positive
NoUsableDuration ==
  kind[currentMedia.asset] = "IMAGE" \/ progress.nan \/ progress.d <= 0

\* C25: once the progress effect has run for a current without usable video
\* duration (an IMAGE, or a VIDEO whose duration is unavailable or
\* non-positive), progress advances with the static display duration.
StaticDurationFallback ==
  (progress.ran /\ NoUsableDuration) => (progress.running /\ progress.den = DURATION)

\* C26: progress always lies in 0..100; it is 0 while the engine is loading,
\* in error or without current, it is reset to 0 whenever current, isLoading
\* or error change, it grows only by the 100 ms tick while the same current is
\* displayed, and it never exceeds 100.
ProgressInRange ==
  /\ [](progress.num >= 0 /\ progress.num <= 100 * progress.den)
  /\ []((isLoading \/ error # "none" \/ currentMedia = NoMedia)
          => (progress.num = 0 /\ ~progress.running))
  /\ [][(currentMedia' # currentMedia \/ isLoading' # isLoading \/ error' # error)
          => progress'.num = 0]_vars
  /\ [][progress'.num > progress.num
          => (ProgressTick /\ currentMedia' = currentMedia
              /\ progress'.num = Stepped(progress))]_vars
  /\ [][progress'.num < progress.num => progress'.num = 0]_vars

\* progress has reached 100 for a media that became current later, and the
\* ticks that followed left it at 100
ProgressCappedWitness ==
  /\ currentMedia.res = 2 /\ progress.running
  /\ progress.num = 100 * progress.den /\ progress.elapsed > progress.den

\* occurrences of descriptor a in the list s
Occ(s, a) == Cardinality({i \in DOMAIN s : s[i] = a})

\* a function in flight is resolving descriptor a
Resolving(b, a) == \E t \in BagToSet(b) : t.pc \in {"first", "pre"} /\ t.asset = a

\* C27: a descriptor whose resolve has used up its retries is skipped for the
\* rest of the pass: until the cursor wraps around or the user resets, no step
\* puts it into the playlist again and no step begins to resolve it again.
SkippedStaysOut ==
  [][\A a \in skipped :
       /\ Occ(playlist', a) <= Occ(playlist, a)
       /\ Resolving(tasks', a) => Resolving(tasks, a)]_vars

\* the calls of fetchAssets in flight that are past their first request: the
\* request they wait for is not the one they were called to make
Refetching ==
  {t \in BagToSet(tasks) : t.pc \in {"req", "fetch", "refill"} /\ t.ftb # t.tb}

\* C28: one call of fetchAssets issues exactly one network request, whatever
\* the response: no call in flight is waiting for a second request.
OneRequestPerFetch == Refetching = {}

\* the request of the fetchAssets call that t waits for is answered (ok) or
\* fails (~ok), for either hook
Answered(t, ok) == FetchResponse(t, ok) \/ InlineFetchResponse(t, ok)

\* when the catalog has nothing for the cursor, fetchAssets returns to its
\* caller: it does not go on to another request
EmptyListAtBoundary ==
  [][\A t \in BagToSet(tasks) :
       (Answered(t, TRUE) /\ SearchMetadata(t.ftb) = <<>>)
         => \A n \in BagToSet(tasks') :
              n.pc \in {"req", "fetch", "refill"} => n.ftb = n.tb]_vars

\* no step is both what follows a failed request and what follows an answered
\* one
OutcomesDistinguished ==
  [][\A t \in BagToSet(tasks) : ~(Answered(t, TRUE) /\ Answered(t, FALSE))]_vars

\* C29: fetchAssets returns the empty list, not the failure value and not
\* another page, when the catalog has nothing for the cursor, and its callers
\* treat an empty list (end of catalog) and the failure value (connection
\* error) differently.
EmptyIsNotFailure == EmptyListAtBoundary /\ OutcomesDistinguished

\* a refill appends the page at the tail, in the order delivered
RefillAppends ==
  [][\A t \in BagToSet(tasks) :
       (\E ok \in BOOLEAN : FetchResponse(t, ok)) /\ playlist' # playlist
         => playlist' = playlist \o SearchMetadata(t.ftb)]_vars

\* the functions that begin to resolve a descriptor in this step
Begun == {n \in BagToSet(tasks') : n.pc \in {"first", "pre"} /\ n.att = 0 /\ ~n.wait
                                   /\ CopiesIn(n, tasks') > CopiesIn(n, tasks)}

\* whoever begins to resolve a descriptor took it from the front of its list
\* and keeps the rest in order: startSlideshow from the playlist, the others
\* from the list they hold, which an advance copied from the playlist
TakenFromFront ==
  /\ [][\A n \in Begun :
          \/ n.pc = "first" /\ <<n.asset>> \o n.rest = playlist'
          \/ \E t \in BagToSet(tasks) :
               /\ t.type = n.type /\ t.pc \in {"first", "pre", "fade"}
               /\ <<n.asset>> \o n.rest = t.rest]_vars
  /\ [][\A n \in BagToSet(tasks') :
          (n.pc = "fade" /\ CopiesIn(n, tasks') > CopiesIn(n, tasks))
            => n.rest = playlist]_vars

\* within one pass (no reset, and no wrap-around since the last promotion) the
\* descriptor that becomes current comes later in the delivery order than the
\* one it replaces, and every descriptor between them was given up
CurrentInOrder ==
  [][(currentMedia # NoMedia /\ currentMedia' # NoMedia /\ currentMedia' # currentMedia
        /\ lastWrite = "promo" /\ epoch' = 0)
       => /\ currentMedia'.asset > currentMedia.asset
          /\ \A a \in (currentMedia.asset + 1)..(currentMedia'.asset - 1) : a \in skipped']_vars

\* C30: the playlist is FIFO: a refill appends the fetched descriptors at the
\* tail in the order the catalog delivered them, descriptors are taken for
\* current and next from the front, and so resources become current in
\* delivery order with only the descriptors that failed left out.
PlaylistIsFifo == RefillAppends /\ TakenFromFront /\ CurrentInOrder

\* the catalog requests issued in this step
Issued ==
  {n \in BagToSet(tasks') : n.pc \in {"req", "fetch", "refill"}
                            /\ CopiesIn(n, tasks') > CopiesIn(n, tasks)}

\* C31: every catalog request, the first one after startup and every later
\* refill, is issued with the cursor that is persisted when it starts: the
\* stored value at startup, afterwards the capture timestamp of the most
\* recently promoted current or the value set by the last reset.
FetchUsesPersistedCursor == [][\A n \in Issued : n.ftb = cursor']_vars

\* C32: an advance with next set, once it has promoted, resolves the following
\* descriptor as the new next; when its playlist is empty at that point it
\* asks the catalog for a refill first, without waiting for another trigger.
PromotionResolvesNext ==
  [][\A t \in BagToSet(tasks) :
       (t.pc = "fade" /\ t.nxt # NoMedia /\ CopiesIn(t, tasks') < CopiesIn(t, tasks))
         => IF t.rest # <<>>
            THEN Resolving(tasks', Head(t.rest))
            ELSE \E n \in BagToSet(tasks') : n.pc \in {"req", "refill"}]_vars

\* calls of preloadNextAsset in flight: resolving a descriptor as next, or
\* waiting for the catalog
Preloading == {t \in BagToSet(tasks) : t.pc \in {"pre", "refill"}}

\* C33: resolving next is bounded: every call of preloadNextAsset comes to an
\* end, also when every descriptor of the catalog fails to resolve; it does not
\* go on fetching and resolving for ever.
PreloadTerminates == (Preloading # {} /\ ~reliable) ~> (Preloading = {})

\* C34: whenever the engine is neither Loading nor in an error condition, and
\* no catalog fetch is in flight, a current resource is set: Loading is the
\* only state without error that has no current.
CurrentSetUnlessLoading ==
  (~isLoading /\ error = "none" /\ ~isFetching /\ Requests(tasks) = 0)
    => currentMedia # NoMedia

\* C35: a resource is owned by one slot: in no state do current and next hold
\* the same resource, the interval between the promotion of next and the end
\* of the resolve of the new next included.
SlotsAreDisjoint == currentMedia # NoMedia => currentMedia.res # nextMedia.res

\* C36: releasing one resource revokes each of its blob URLs exactly once: the
\* one URL of an IMAGE, which is both its primary and its preview handle, is
\* not revoked twice, and the two URLs of a VIDEO are revoked once each.
RevokedExactlyOnce ==
  call.revoked # <<>>
    => \A u \in {call.url, call.previewUrl} : Occ(call.revoked, u) = 1

\* what the playlist holds after the list s that begins it
After(s) == SubSeq(playlist, Len(s) + 1, Len(playlist))

IsPrefix(s, l) == Len(s) <= Len(l) /\ SubSeq(l, 1, Len(s)) = s

IsSuffix(s, l) == Len(s) <= Len(l) /\ SubSeq(l, Len(l) - Len(s) + 1, Len(l)) = s

\* the advance t ends in this step, writing back the playlist it is left with
WritesBack(t) ==
  /\ t.type = "adv" /\ CopiesIn(t, tasks') < CopiesIn(t, tasks)
  /\ Advances(tasks') < Advances(tasks)

\* C37: descriptors appended to the playlist by a refill that completes while
\* an advance is in flight are not lost: when the advance writes back what is
\* left of the playlist it started with, the descriptors appended since are
\* still in the playlist, in their order.
RefillSurvivesAdvance ==
  [][\A t \in BagToSet(tasks) :
       (WritesBack(t) /\ IsPrefix(t.held, playlist))
         => IsSuffix(After(t.held), playlist')]_vars

FlipCleansOutgoing ==
  [][\A c \in frame.timeouts :
       FrameCleanup(c) => (c.clear # Visible(frame) /\ c.url # UrlOf(frame, Visible(frame)))]_vars

\* the same for the page of part_002 alone
FlipCleansOutgoing002 ==
  [][\A c \in frame.timeouts :
       (FrameCleanup(c) /\ frame.variant = "part_002")
         => (c.clear # Visible(frame) /\ c.url # UrlOf(frame, Visible(frame)))]_vars


\* C40: findAndLoadAlbum of the album-based page terminates for a non-empty
\* album list: starting from the current album index it examines each album
\* at most once, in order; it stops at the first album with matching assets
\* and a loadable first image; if no album qualifies it ends with an error
\* and isLoading false.
Searching == album.pc \in {"details", "first"}

ExaminedInOrder ==
  /\ Len(album.examined) <= album.albumPlaylist
  /\ \A i \in DOMAIN album.examined :
       album.examined[i].album = (album.initialAlbumIndex + i - 1) % album.albumPlaylist

StopsAtFirstLoaded ==
  \A i \in DOMAIN album.examined :
    album.examined[i].outcome = "loaded"
      => (i = Len(album.examined) /\ album.pc = "done" /\ ~album.isLoading
          /\ album.error = "none" /\ album.albumIndex = album.examined[i].album)

NoneQualifies ==
  /\ album.pc = "done" /\ album.albumPlaylist > 0
  /\ \A i \in DOMAIN album.examined : album.examined[i].outcome # "loaded"

FindAndLoadAlbumTerminates ==
  /\ [](album.albumPlaylist > 0 => (ExaminedInOrder /\ StopsAtFirstLoaded))
  /\ [](NoneQualifies => /\ Len(album.examined) = album.albumPlaylist
                         /\ album.error \in {"nomatch", "tried"} /\ ~album.isLoading)
  /\ (Searching ~> album.pc = "done")

\* a search that began at the second of three albums has given up all three
SearchFromLaterIndexWitness ==
  /\ NoneQualifies /\ album.albumPlaylist = MaxAlbums /\ album.initialAlbumIndex = 1
  /\ Len(album.examined) = MaxAlbums /\ album.examined[MaxAlbums].album = 0
  /\ album.error = "tried" /\ ~album.isLoading
====
